---- MODULE Spec2Model ----
(***************************************************************************)
(* A model of the halt rate-limiting library (packages/python/halt).       *)
(*                                                                         *)
(* Time.  The algorithms take `now` as a float number of seconds.  The     *)
(* model measures time in ticks of 1/TicksPerSec second, so that calls at  *)
(* fractional seconds exist and int() has something to truncate.           *)
(*                                                                         *)
(* Reals.  Token counts and bucket levels are floats in the code.  They    *)
(* are kept here as exact rationals: an amount x is held as the integer    *)
(* x * Unit(cfg), Unit(cfg) = cfg.window * TicksPerSec, which is exact     *)
(* for every product elapsed * limit / window the code forms.  Floating    *)
(* point rounding is not modelled.                                         *)
(***************************************************************************)
EXTENDS Integers, Sequences, FiniteSets, TLC

\* ------------------------------------------------------------------ bounds
TicksPerSec == 2
MaxLimit == 2
MaxWindow == 2
MaxBurst == 3
MaxCost == 2
MaxStep == 3
MaxCalls == 5
MaxPrecision == 2
NumCallers == 2
MaxAccesses == 4
MaxThreshold == 2
MaxDecayRate == 2
MaxSeverity == 1
MaxHooks == 3
MaxDispatches == 2
MaxPolicyLimit == 5
MaxStoreOps == 3
MaxTTL == 1
AddrBits == 2
MaxHeaderLen == 3
MaxProxies == 1

\* ----------------------------------------------------------------- helpers
None == <<>>
Some(v) == <<v>>

Min(a, b) == IF a <= b THEN a ELSE b
Max(a, b) == IF a >= b THEN a ELSE b

\* Python int(n / d) for d > 0: truncation toward zero.
IntTrunc(n, d) == IF n >= 0 THEN n \div d ELSE -((-n) \div d)

\* ceil(n / d) for n >= 0, d > 0.
CeilDiv(n, d) == (n + d - 1) \div d

VARIABLES
    cfg,        \* the configuration object in use: a Policy or a Quota
    now,        \* the clock (time.time()), in ticks
    state,      \* the per-key algorithm state, as returned by the last call
    cur,        \* the last call: its cost, its time and its Decision
    prev,       \* the call before it
    allowedAt,  \* the times (ticks) of the allowed calls, oldest first
    calls,      \* number of calls made
    store,      \* the InMemoryStore: its _data and _expiry dictionaries
    pc,         \* where each concurrent caller is in its operation
    local,      \* each concurrent caller's local variables
    ledger      \* the sum of the costs of the completed consume_quota calls

algVars == <<state, cur, prev, allowedAt>>
storeVars == <<store, pc, local, ledger>>
vars == <<cfg, now, state, cur, prev, allowedAt, calls, store, pc, local, ledger>>

\* --------------------------------------------------------- in-memory store
\* A Python dict is a function with a finite domain.
DictSet(f, k, v) == [x \in DOMAIN f \cup {k} |-> IF x = k THEN v ELSE f[x]]
DictPop(f, k) == [x \in DOMAIN f \ {k} |-> f[x]]

\* InMemoryStore.__init__
EmptyStore == [data |-> <<>>, expiry |-> <<>>]

\* Remove key if past its deadline, not at it.
InMemoryStore__cleanup_expired_Late(s, key, t) ==
    IF key \in DOMAIN s.expiry /\ t > s.expiry[key]
    THEN [data |-> DictPop(s.data, key), expiry |-> DictPop(s.expiry, key)]
    ELSE s

\* Remove key if expired.  t is time.time(), in ticks.
InMemoryStore__cleanup_expired(s, key, t) ==
    IF key \in DOMAIN s.expiry /\ t >= s.expiry[key]
    THEN [data |-> DictPop(s.data, key), expiry |-> DictPop(s.expiry, key)]
    ELSE s

\* get returns the value (None if not found or expired) and leaves the store
\* without the key it found expired.
InMemoryStore_get(s, key, t) ==
    LET s1 == InMemoryStore__cleanup_expired(s, key, t)
    IN  [store |-> s1,
         value |-> IF key \in DOMAIN s1.data THEN Some(s1.data[key]) ELSE None]

\* set with ttl = None or Some(seconds).
InMemoryStore_set(s, key, value, ttl, t) ==
    [data |-> DictSet(s.data, key, value),
     expiry |-> IF ttl # None
                THEN DictSet(s.expiry, key, t + ttl[1] * TicksPerSec)
                ELSE DictPop(s.expiry, key)]

InMemoryStore_delete(s, key) ==
    [data |-> DictPop(s.data, key), expiry |-> DictPop(s.expiry, key)]

\* ------------------------------------------------------------------ policy
\* Policy.__post_init__: the parameter combinations that construct.
PolicyValid(limit, window, burst, cost) ==
    /\ limit > 0
    /\ window > 0
    /\ cost > 0
    /\ burst >= limit

Algorithm == {"token_bucket", "fixed_window", "sliding_window", "leaky_bucket"}

\* The policies of the model: every field combination within the bounds that
\* Policy.__post_init__ accepts.  precision is SlidingWindow's third
\* parameter; it is 1 for the algorithms that have none.
Policies(algorithms) ==
    { p \in [algorithm : algorithms, limit : 1..MaxLimit, window : 1..MaxWindow,
             burst : 1..MaxBurst, precision : 1..MaxPrecision] :
        /\ PolicyValid(p.limit, p.window, p.burst, 1)
        /\ p.algorithm # "sliding_window" => p.precision = 1 }

\* The cost of a call: a unit request or the most expensive one.
Costs == {1, MaxCost}

\* Policy.cost: the cost per request (default: 1)
PolicyCost == 1

\* One token (one request) in the integer units amounts are held in.
Unit(p) == p.window * TicksPerSec

\* ---------------------------------------------------------------- Decision
Decision(allowed, limit, remaining, reset_at, retry_after) ==
    [allowed |-> allowed, limit |-> limit, remaining |-> remaining,
     reset_at |-> reset_at, retry_after |-> retry_after]

\* A call as its caller saw it.  refilled tells whether capacity came back
\* since the call before: time passed (buckets), the window rolled (fixed
\* window), a sub-bucket was discarded (sliding window).
NoCall == [cost |-> 0, now |-> 0, called |-> FALSE, refilled |-> FALSE,
           decision |-> Decision(TRUE, 0, 0, 0, None)]

Call(cost, t, d, refilled) ==
    [cost |-> cost, now |-> t, called |-> TRUE, refilled |-> refilled,
     decision |-> d]

\* ------------------------------------------------------------ token bucket
\* TokenBucket(capacity = burst, rate = limit, window): self.rate is
\* limit / window tokens per second, i.e. p.limit units per tick.
TokenBucket_initial_state(p, t) ==
    [tokens |-> p.burst * Unit(p), last_refill |-> t]

\* Refill tokens based on elapsed time.
TokenBucket_refill_Uncapped(p, current_tokens, last_refill, t) ==
    LET elapsed == t - last_refill
        refill_amount == elapsed * p.limit
    IN  current_tokens + refill_amount

TokenBucket_refill(p, current_tokens, last_refill, t) ==
    LET capacity == p.burst * Unit(p)
        elapsed == t - last_refill
        refill_amount == elapsed * p.limit
    IN  Min(capacity, current_tokens + refill_amount)

\* int(tokens_deficit / rate) + 1
TokenBucket_retry_after(p, new_tokens, cost) ==
    LET tokens_deficit == cost * Unit(p) - new_tokens
    IN  IntTrunc(tokens_deficit, TicksPerSec * p.limit) + 1

TokenBucket_check_and_consume(p, current_tokens, last_refill, cost, t) ==
    LET capacity == p.burst * Unit(p)
        new_tokens == TokenBucket_refill(p, current_tokens, last_refill, t)
        tokens_needed == capacity - new_tokens
        \* int(now + tokens_needed / rate)
        reset_at == IntTrunc(t * p.limit + tokens_needed, TicksPerSec * p.limit)
    IN  IF new_tokens >= cost * Unit(p)
        THEN LET left == new_tokens - cost * Unit(p)
             IN  [decision |-> Decision(TRUE, p.burst, IntTrunc(left, Unit(p)),
                                        reset_at, None),
                  tokens |-> left,
                  last_refill |-> t]
        ELSE LET retry_after == TokenBucket_retry_after(p, new_tokens, cost)
             IN  [decision |-> Decision(FALSE, p.burst, 0, reset_at,
                                        Some(retry_after)),
                  tokens |-> new_tokens,
                  last_refill |-> last_refill]

\* ------------------------------------------------------------------ driver
\* The caller's choice of the next call time: at once, one tick later, a
\* long wait later, or exactly the retry_after of the denial it has just
\* received.
Steps ==
    {0, 1, MaxStep} \cup
    (IF cur.called /\ ~cur.decision.allowed
     THEN {cur.decision.retry_after[1] * TicksPerSec}
     ELSE {})

Record(cost, t, d, refilled) ==
    /\ now' = t
    /\ prev' = cur
    /\ cur' = Call(cost, t, d, refilled)
    /\ allowedAt' = IF d.allowed THEN Append(allowedAt, t) ELSE allowedAt
    /\ calls' = calls + 1

TokenBucketCheck ==
    /\ cfg.algorithm = "token_bucket"
    /\ calls < MaxCalls
    /\ \E cost \in Costs, dt \in Steps :
         LET t == now + dt
             r == TokenBucket_check_and_consume(cfg, state.tokens,
                                                state.last_refill, cost, t)
         IN  /\ state' = [tokens |-> r.tokens, last_refill |-> r.last_refill]
             /\ Record(cost, t, r.decision, t > now)
    /\ UNCHANGED <<cfg, storeVars>>


\* ------------------------------------------------------------ leaky bucket
\* LeakyBucket(capacity = burst, leak_rate = limit / window, window): the
\* level is held in Unit(p) units, the leak is p.limit units per tick.
LeakyBucket_initial_state(p, t) ==
    [level |-> 0, last_leak |-> t]

\* Update bucket level (can't go below 0).
LeakyBucket_drain_Unclamped(p, current_level, last_leak, t) ==
    LET elapsed == t - last_leak
        leaked == elapsed * p.limit
    IN  current_level - leaked

LeakyBucket_drain(p, current_level, last_leak, t) ==
    LET elapsed == t - last_leak
        leaked == elapsed * p.limit
    IN  Max(0, current_level - leaked)

\* Check if we have capacity.
LeakyBucket_has_capacity_IgnoringCost(p, new_level, cost) ==
    new_level <= p.burst * Unit(p)

LeakyBucket_has_capacity(p, new_level, cost) ==
    new_level + cost * Unit(p) <= p.burst * Unit(p)

\* int(space_needed / leak_rate) + 1
LeakyBucket_retry_after_NoGuard(p, new_level, cost) ==
    LET space_needed == (new_level + cost * Unit(p)) - p.burst * Unit(p)
    IN  IntTrunc(space_needed, TicksPerSec * p.limit)

LeakyBucket_retry_after(p, new_level, cost) ==
    LET space_needed == (new_level + cost * Unit(p)) - p.burst * Unit(p)
    IN  IntTrunc(space_needed, TicksPerSec * p.limit) + 1

LeakyBucket_check_and_consume(p, current_level, last_leak, cost, t) ==
    LET capacity == p.burst * Unit(p)
        new_level == LeakyBucket_drain(p, current_level, last_leak, t)
        \* int(now + new_level / leak_rate), or int(now) for an empty bucket
        reset_at == IF new_level > 0
                    THEN IntTrunc(t * p.limit + new_level, TicksPerSec * p.limit)
                    ELSE IntTrunc(t, TicksPerSec)
    IN  IF LeakyBucket_has_capacity(p, new_level, cost)
        THEN LET level == new_level + cost * Unit(p)
             IN  [decision |-> Decision(TRUE, p.burst,
                                        IntTrunc(capacity - level, Unit(p)),
                                        reset_at, None),
                  level |-> level,
                  last_leak |-> t]
        ELSE LET retry_after == LeakyBucket_retry_after(p, new_level, cost)
             IN  [decision |-> Decision(FALSE, p.burst, 0, reset_at,
                                        Some(retry_after)),
                  level |-> new_level,
                  last_leak |-> t]

LeakyBucketCheck ==
    /\ cfg.algorithm = "leaky_bucket"
    /\ calls < MaxCalls
    /\ \E cost \in Costs, dt \in Steps :
         LET t == now + dt
             r == LeakyBucket_check_and_consume(cfg, state.level,
                                                state.last_leak, cost, t)
         IN  /\ state' = [level |-> r.level, last_leak |-> r.last_leak]
             /\ Record(cost, t, r.decision, t > now)
    /\ UNCHANGED <<cfg, storeVars>>


\* ------------------------------------------------------------ fixed window
\* FixedWindow(limit, window): count is an integer, window_start is in ticks.
FixedWindow_initial_state(p, t) ==
    [count |-> 0, window_start |-> t]

\* Check if we have capacity.
FixedWindow_has_capacity_IgnoringCost(p, current_count, cost) ==
    current_count <= p.limit

FixedWindow_has_capacity(p, current_count, cost) ==
    current_count + cost <= p.limit

\* Check if we're in a new window.
FixedWindow_new_window_Late(p, window_start, t) ==
    LET time_since_start == t - window_start
    IN  time_since_start > p.window * TicksPerSec

FixedWindow_new_window(p, window_start, t) ==
    LET time_since_start == t - window_start
    IN  time_since_start >= p.window * TicksPerSec

\* Block request: the wait without the extra second.
FixedWindow_retry_after_NoMargin(reset_at, t) ==
    IntTrunc(reset_at * TicksPerSec - t, TicksPerSec)

\* int(reset_at - now) + 1
FixedWindow_retry_after(reset_at, t) ==
    IntTrunc(reset_at * TicksPerSec - t, TicksPerSec) + 1

FixedWindow_check_and_consume(p, count0, window_start0, cost, t) ==
    LET rolled == FixedWindow_new_window(p, window_start0, t)
        current_count == IF rolled THEN 0 ELSE count0
        window_start == IF rolled THEN t ELSE window_start0
        \* int(window_start + window)
        reset_at == IntTrunc(window_start + p.window * TicksPerSec, TicksPerSec)
    IN  IF FixedWindow_has_capacity(p, current_count, cost)
        THEN LET new_count == current_count + cost
             IN  [decision |-> Decision(TRUE, p.limit, p.limit - new_count,
                                        reset_at, None),
                  count |-> new_count,
                  window_start |-> window_start]
        ELSE LET retry_after == FixedWindow_retry_after(reset_at, t)
             IN  [decision |-> Decision(FALSE, p.limit, 0, reset_at,
                                        Some(retry_after)),
                  count |-> current_count,
                  window_start |-> window_start]

FixedWindowCheck ==
    /\ cfg.algorithm = "fixed_window"
    /\ calls < MaxCalls
    /\ \E cost \in Costs, dt \in Steps :
         LET t == now + dt
             r == FixedWindow_check_and_consume(cfg, state.count,
                                                state.window_start, cost, t)
         IN  /\ state' = [count |-> r.count, window_start |-> r.window_start]
             /\ Record(cost, t, r.decision,
                       r.window_start # state.window_start)
    /\ UNCHANGED <<cfg, storeVars>>


\* ---------------------------------------------------------- sliding window
\* SlidingWindow(limit, window, precision): bucket_size = window / precision
\* seconds.  buckets is a function from the stored bucket ids to counts.
SlidingWindow_initial_state == <<>>

RECURSIVE SumValues(_)
SumValues(f) ==
    IF DOMAIN f = {} THEN 0
    ELSE LET k == CHOOSE x \in DOMAIN f : TRUE
         IN  f[k] + SumValues([x \in DOMAIN f \ {k} |-> f[x]])

MinOf(S) == CHOOSE x \in S : \A y \in S : x <= y

\* Remove expired buckets (older than window): the bucket ids that stay.
SlidingWindow_retained_Inclusive(p, buckets, current_bucket) ==
    LET cutoff_bucket == current_bucket - p.precision
    IN  { bucket_id \in DOMAIN buckets : bucket_id >= cutoff_bucket }

SlidingWindow_retained(p, buckets, current_bucket) ==
    LET cutoff_bucket == current_bucket - p.precision
    IN  { bucket_id \in DOMAIN buckets : bucket_id > cutoff_bucket }

\* int(now / bucket_size)
SlidingWindow_current_bucket(p, t) ==
    IntTrunc(t * p.precision, p.window * TicksPerSec)

SlidingWindow_check_and_consume(p, buckets, cost, t) ==
    LET current_bucket == SlidingWindow_current_bucket(p, t)
        kept == SlidingWindow_retained(p, buckets, current_bucket)
        new_buckets == [b \in kept |-> buckets[b]]
        total_count == SumValues(new_buckets)
        oldest_bucket == IF kept # {} THEN MinOf(kept) ELSE current_bucket
        \* int((oldest_bucket + precision + 1) * bucket_size)
        reset_at == IntTrunc((oldest_bucket + p.precision + 1) * p.window,
                             p.precision)
    IN  IF total_count + cost <= p.limit
        THEN [decision |-> Decision(TRUE, p.limit,
                                    p.limit - (total_count + cost),
                                    reset_at, None),
              buckets |-> [b \in kept \cup {current_bucket} |->
                             IF b = current_bucket
                             THEN (IF b \in kept THEN new_buckets[b] ELSE 0) + cost
                             ELSE new_buckets[b]]]
        ELSE \* int(bucket_size) + 1
             LET retry_after == IntTrunc(p.window, p.precision) + 1
             IN  [decision |-> Decision(FALSE, p.limit, 0, reset_at,
                                        Some(retry_after)),
                  buckets |-> new_buckets]

SlidingWindowCheck ==
    /\ cfg.algorithm = "sliding_window"
    /\ calls < MaxCalls
    /\ \E cost \in Costs, dt \in Steps :
         LET t == now + dt
             r == SlidingWindow_check_and_consume(cfg, state, cost, t)
         IN  /\ state' = r.buckets
             /\ Record(cost, t, r.decision,
                       \E b \in DOMAIN state : b \notin DOMAIN r.buckets)
    /\ UNCHANGED <<cfg, storeVars>>


\* ------------------------------------------------------------------- quota
QuotaPeriod == {"hourly", "daily", "monthly", "yearly"}

\* The proleptic Gregorian calendar of datetime: the day number (days since
\* 1970-01-01) of a date, and the date of a day number.
DaysFromCivil(y, m, d) ==
    LET yy == IF m <= 2 THEN y - 1 ELSE y
        era == yy \div 400
        yoe == yy - era * 400
        mp == IF m > 2 THEN m - 3 ELSE m + 9
        doy == (153 * mp + 2) \div 5 + d - 1
        doe == yoe * 365 + yoe \div 4 - yoe \div 100 + doy
    IN  era * 146097 + doe - 719468

CivilFromDays(z0) ==
    LET z == z0 + 719468
        era == z \div 146097
        doe == z - era * 146097
        yoe == (doe - doe \div 1460 + doe \div 36524 - doe \div 146096) \div 365
        doy == doe - (365 * yoe + yoe \div 4 - yoe \div 100)
        mp == (5 * doy + 2) \div 153
        d == doy - (153 * mp + 2) \div 5 + 1
        m == IF mp < 10 THEN mp + 3 ELSE mp - 9
        y == yoe + era * 400
    IN  [year |-> IF m <= 2 THEN y + 1 ELSE y, month |-> m, day |-> d]

\* Quota._calculate_reset_time at clock t (ticks).  datetime.utcnow() is a
\* naive datetime holding the UTC wall clock; next_reset.timestamp() reads a
\* naive datetime as local time, so the result is the UTC boundary minus
\* the UTC offset (seconds east of UTC) of the process's time zone.
Quota__calculate_reset_time(period, t, utcoffset) ==
    LET secs == t \div TicksPerSec
        days == secs \div 86400
        date == CivilFromDays(days)
        next_reset ==
            CASE period = "hourly" -> (secs \div 3600) * 3600 + 3600
              [] period = "daily" -> days * 86400 + 86400
              [] period = "monthly" ->
                    IF date.month = 12
                    THEN DaysFromCivil(date.year + 1, 1, 1) * 86400
                    ELSE DaysFromCivil(date.year, date.month + 1, 1) * 86400
              [] period = "yearly" -> DaysFromCivil(date.year + 1, 1, 1) * 86400
    IN  next_reset - utcoffset

Quota(name, limit, period, current_usage, reset_at) ==
    [name |-> name, limit |-> limit, period |-> period,
     current_usage |-> current_usage, reset_at |-> reset_at]

\* Quota.is_expired: int(time.time()) >= self.reset_at
Quota_is_expired(q, t) == t \div TicksPerSec >= q.reset_at

\* Quota.reset
Quota_reset(q, t, utcoffset) ==
    [q EXCEPT !.current_usage = 0,
              !.reset_at = Quota__calculate_reset_time(q.period, t, utcoffset)]

\* Quota.remaining
Quota_remaining(q) == Max(0, q.limit - q.current_usage)

QuotaManager__get_quota_key(identifier, quota_name) ==
    <<"halt", "quota", quota_name, identifier>>

\* QuotaManager.get_quota, after its store.get returned `stored`.
\* A get_quota that takes the limit of the quota it was passed.
QuotaManager_get_quota_CallerLimit(stored, quota, t, utcoffset) ==
    IF stored = None
    THEN Quota(quota.name, quota.limit, quota.period, 0,
               Quota__calculate_reset_time(quota.period, t, utcoffset))
    ELSE LET current_quota == [stored[1] EXCEPT !.limit = quota.limit]
         IN  IF Quota_is_expired(current_quota, t)
             THEN Quota_reset(current_quota, t, utcoffset)
             ELSE current_quota

QuotaManager_get_quota(stored, quota, t, utcoffset) ==
    IF stored = None
    THEN Quota(quota.name, quota.limit, quota.period, 0,
               Quota__calculate_reset_time(quota.period, t, utcoffset))
    ELSE LET current_quota == stored[1]
         IN  IF Quota_is_expired(current_quota, t)
             THEN Quota_reset(current_quota, t, utcoffset)
             ELSE current_quota

\* QuotaManager.consume_quota, after get_quota returned current_quota: the
\* store that its store.set leaves.
QuotaManager_consume_quota(s, identifier, current_quota, cost, t) ==
    LET updated == [current_quota EXCEPT !.current_usage = @ + cost]
        key == QuotaManager__get_quota_key(identifier, updated.name)
        ttl == updated.reset_at - t \div TicksPerSec + 3600
    IN  InMemoryStore_set(s, key, updated, Some(ttl), t)

\* ------------------------------------------------------ concurrent callers
Callers == 1..NumCallers

Idle == [c \in Callers |-> "idle"]
NoLocals == [c \in Callers |-> <<>>]

AllIdle == \A c \in Callers : pc[c] = "idle"

\* The clock of the concurrent specifications advances one tick at a time.
Tick(horizon) ==
    /\ now < horizon
    /\ now' = now + 1
    /\ UNCHANGED <<cfg, algVars, calls, storeVars>>

\* ---- QuotaManager over the in-memory store, several callers, one key
Identifier == "user"

\* The first period boundary after the epoch, in seconds (UTC).
FirstBoundary(period) == Quota__calculate_reset_time(period, 0, 0)

QuotaConfigs ==
    [name : {"requests"}, limit : {1, MaxLimit}, period : QuotaPeriod]

\* get_quota: store.get under the store's lock, then the deserialisation and
\* the expiry check on the caller's own copy.
ConsumeQuotaGet(c) ==
    /\ pc[c] = "idle"
    /\ calls < MaxCalls
    /\ \E cost \in Costs :
         LET key == QuotaManager__get_quota_key(Identifier, cfg.quota.name)
             got == InMemoryStore_get(store, key, now)
             current_quota == QuotaManager_get_quota(got.value, cfg.quota, now,
                                                     cfg.utcoffset)
         IN  /\ store' = got.store
             /\ local' = [local EXCEPT ![c] =
                            [cost |-> cost, current_quota |-> current_quota]]
    /\ pc' = [pc EXCEPT ![c] = "consume_quota"]
    /\ calls' = calls + 1
    /\ UNCHANGED <<cfg, now, algVars, ledger>>

\* the rest of consume_quota: add the cost to the copy and store.set it.
ConsumeQuotaSet(c) ==
    /\ pc[c] = "consume_quota"
    /\ store' = QuotaManager_consume_quota(store, Identifier,
                                           local[c].current_quota,
                                           local[c].cost, now)
    /\ ledger' = ledger + local[c].cost
    /\ pc' = [pc EXCEPT ![c] = "idle"]
    /\ local' = [local EXCEPT ![c] = <<>>]
    /\ UNCHANGED <<cfg, now, algVars, calls>>

QuotaTick ==
    Tick(FirstBoundary(cfg.quota.period) * TicksPerSec + MaxStep)

InitQuotaConcurrent ==
    /\ cfg \in [quota : QuotaConfigs, utcoffset : {0}]
    /\ now = (FirstBoundary(cfg.quota.period) - 1) * TicksPerSec
    /\ state = <<>>
    /\ cur = NoCall
    /\ prev = NoCall
    /\ allowedAt = <<>>
    /\ calls = 0
    /\ store = EmptyStore
    /\ pc = Idle
    /\ local = NoLocals
    /\ ledger = 0

NextQuotaConcurrent ==
    \/ \E c \in Callers : ConsumeQuotaGet(c)
    \/ \E c \in Callers : ConsumeQuotaSet(c)
    \/ QuotaTick

SpecQuotaConcurrent == InitQuotaConcurrent /\ [][NextQuotaConcurrent]_vars

\* ---- QuotaManager over the in-memory store, one caller, one key
\* The UTC offsets (seconds east of UTC) of the time zone the process runs
\* in: UTC, one hour east, one hour west.
UtcOffsets == {0, 3600, -3600}

\* Quota.is_expired with a strict comparison.
Quota_is_expired_Strict(q, t) == t \div TicksPerSec > q.reset_at

\* QuotaManager.get_quota as a whole: its store.get and what it returns.
QuotaManager_read(s, identifier, quota, t, utcoffset) ==
    LET key == QuotaManager__get_quota_key(identifier, quota.name)
        got == InMemoryStore_get(s, key, t)
    IN  [store |-> got.store,
         quota |-> QuotaManager_get_quota(got.value, quota, t, utcoffset)]

\* A check_quota that saves the record it has reset.
QuotaManager_check_quota_Saving(s, identifier, quota, cost, t, utcoffset) ==
    LET r == QuotaManager_read(s, identifier, quota, t, utcoffset)
    IN  [store |-> QuotaManager_consume_quota(r.store, identifier, r.quota, 0, t),
         allowed |-> r.quota.current_usage + cost <= r.quota.limit,
         quota |-> r.quota]

\* QuotaManager.check_quota: (allowed, current_quota), and the store it
\* leaves.
QuotaManager_check_quota(s, identifier, quota, cost, t, utcoffset) ==
    LET r == QuotaManager_read(s, identifier, quota, t, utcoffset)
    IN  [store |-> r.store,
         allowed |-> r.quota.current_usage + cost <= r.quota.limit,
         quota |-> r.quota]

\* QuotaManager.reset_quota
QuotaManager_reset_quota(s, identifier, quota) ==
    InMemoryStore_delete(s, QuotaManager__get_quota_key(identifier, quota.name))

\* A calendar boundary of the period, in UTC: s is in seconds.
IsBoundary(period, s) ==
    LET date == CivilFromDays(s \div 86400)
    IN  CASE period = "hourly" -> s % 3600 = 0
          [] period = "daily" -> s % 86400 = 0
          [] period = "monthly" -> s % 86400 = 0 /\ date.day = 1
          [] period = "yearly" -> s % 86400 = 0 /\ date.day = 1 /\ date.month = 1

\* A period boundary lies in (t1, t2] (ticks), for t2 - t1 of at most an hour.
CrossesBoundary(period, t1, t2) ==
    LET mark == ((t2 \div TicksPerSec) \div 3600) * 3600
    IN  t1 < mark * TicksPerSec /\ IsBoundary(period, mark)

\* An access as its caller saw it: the operation, its cost, its time, the
\* store it found, the usage it saw before applying its cost, the answer of
\* check_quota and the Quota it returned.
QuotaCall(op, cost, t, before, quota, allowed, returned) ==
    [called |-> TRUE, op |-> op, cost |-> cost, now |-> t, before |-> before,
     seen |-> quota.current_usage, allowed |-> allowed, quota |-> returned]

QuotaRecord(call) ==
    /\ cur' = call
    /\ calls' = calls + 1
    /\ UNCHANGED <<cfg, now, state, prev, allowedAt, pc, local>>

GetQuota ==
    /\ calls < MaxAccesses
    /\ LET r == QuotaManager_read(store, Identifier, cfg.quota, now,
                                  cfg.utcoffset)
       IN  /\ store' = r.store
           /\ QuotaRecord(QuotaCall("get_quota", 0, now, store, r.quota,
                                    TRUE, r.quota))
    /\ UNCHANGED ledger

CheckQuota ==
    /\ calls < MaxAccesses
    /\ \E cost \in Costs :
         LET r == QuotaManager_check_quota(store, Identifier, cfg.quota, cost,
                                           now, cfg.utcoffset)
         IN  /\ store' = r.store
             /\ QuotaRecord(QuotaCall("check_quota", cost, now, store, r.quota,
                                      r.allowed, r.quota))
    /\ UNCHANGED ledger

\* consume_quota as a whole, run by a single caller.
ConsumeQuotaWith(cost) ==
    /\ calls < MaxAccesses
    /\ LET r == QuotaManager_read(store, Identifier, cfg.quota, now,
                                  cfg.utcoffset)
           updated == [r.quota EXCEPT !.current_usage = @ + cost]
       IN  /\ store' = QuotaManager_consume_quota(r.store, Identifier, r.quota,
                                                  cost, now)
           /\ QuotaRecord(QuotaCall("consume_quota", cost, now, store, r.quota,
                                    TRUE, updated))
    /\ ledger' = ledger + cost

ConsumeQuota == \E cost \in Costs : ConsumeQuotaWith(cost)

\* consume_quota(cost) invoked immediately after check_quota(cost) returned
\* allowed.
ConsumeQuotaAfterCheck ==
    /\ cur.called /\ cur.op = "check_quota" /\ cur.allowed /\ cur.now = now
    /\ ConsumeQuotaWith(cur.cost)

ResetQuota ==
    /\ calls < MaxAccesses
    /\ store' = QuotaManager_reset_quota(store, Identifier, cfg.quota)
    /\ QuotaRecord([called |-> TRUE, op |-> "reset_quota", cost |-> 0,
                    now |-> now, before |-> store, seen |-> 0,
                    allowed |-> TRUE, quota |-> None])
    /\ ledger' = 0

\* The clock of the single caller starts one tick before the first period
\* boundary; it advances by one tick while it is within a second of where
\* it was an hour before, or by an hour, until the TTL of a record written
\* at the start has run out (the one hour consume_quota adds to reset_at,
\* itself up to an hour after the boundary).  ledger is the sum of the
\* costs consumed since the last UTC period boundary or reset_quota.
QuotaStart == FirstBoundary(cfg.quota.period) * TicksPerSec - 1

QuotaHorizon == QuotaStart + (3600 + 3600) * TicksPerSec + TicksPerSec

QuotaSteps ==
    (IF (now - QuotaStart) % (3600 * TicksPerSec) < TicksPerSec THEN {1} ELSE {})
    \cup {3600 * TicksPerSec}

QuotaAdvance ==
    /\ \E dt \in QuotaSteps :
         /\ now + dt <= QuotaHorizon
         /\ now' = now + dt
         /\ ledger' = IF CrossesBoundary(cfg.quota.period, now, now + dt)
                       THEN 0 ELSE ledger
    /\ UNCHANGED <<cfg, algVars, calls, store, pc, local>>

InitQuota ==
    /\ cfg \in [quota : QuotaConfigs, utcoffset : UtcOffsets]
    /\ now = QuotaStart
    /\ state = <<>>
    /\ cur = NoCall
    /\ prev = NoCall
    /\ allowedAt = <<>>
    /\ calls = 0
    /\ store = EmptyStore
    /\ pc = <<>>
    /\ local = <<>>
    /\ ledger = 0

NextQuota ==
    \/ GetQuota
    \/ CheckQuota
    \/ ConsumeQuota
    \/ ResetQuota
    \/ QuotaAdvance

SpecQuota == InitQuota /\ [][NextQuota]_vars

\* The caller that consumes only what check_quota has just allowed.
NextQuotaChecked ==
    \/ CheckQuota
    \/ ConsumeQuotaAfterCheck
    \/ ResetQuota
    \/ QuotaAdvance

SpecQuotaChecked == InitQuota /\ [][NextQuotaChecked]_vars

\* ----------------------------------------------------------------- penalty
\* PenaltyConfig(threshold, duration, multiplier, decay_rate).  multiplier is
\* a fraction <<numerator, denominator>>; decay_rate is in points per hour.
\* duration is an hour, or longer than the store keeps the record.
PenaltyDurations == {3600, 8 * 86400}

PenaltyConfigs ==
    [threshold : {1, MaxThreshold}, duration : PenaltyDurations,
     multiplier : {<<1, 2>>}, decay_rate : {1, MaxDecayRate}]

\* The severity of a violation.
Severities == 0..MaxSeverity

\* One point of abuse score in the integer units scores are held in: a
\* score decays by decay_rate units per tick.
ScorePoint == 3600 * TicksPerSec

\* Penalty()
Penalty_default ==
    [abuse_score |-> 0, penalty_until |-> None, violations |-> 0,
     last_violation |-> None]

\* Penalty.is_active: int(time.time()) < self.penalty_until
Penalty_is_active(penalty, t) ==
    IF penalty.penalty_until = None THEN FALSE
    ELSE t \div TicksPerSec < penalty.penalty_until[1]

PenaltyManager__get_penalty_key(identifier) == <<"halt", "penalty", identifier>>

\* Apply decay to abuse score: max(0, abuse_score - hours_elapsed * rate).
PenaltyManager_decay(config, penalty, t) ==
    LET elapsed == t - penalty.last_violation[1] * TicksPerSec
        decay == elapsed * config.decay_rate
    IN  Max(0, penalty.abuse_score - decay)

\* PenaltyManager.get_penalty, after its store.get returned `stored`.
\* `if penalty.last_violation:` is false for None and for 0.
PenaltyManager_get_penalty(config, stored, t) ==
    IF stored = None THEN Penalty_default
    ELSE LET penalty == stored[1]
         IN  IF penalty.last_violation # None /\ penalty.last_violation[1] # 0
             THEN [penalty EXCEPT !.abuse_score =
                                      PenaltyManager_decay(config, penalty, t)]
             ELSE penalty

\* 7 * 24 * 3600: keep data for 7 days after last violation.
PenaltyTTL == 7 * 24 * 3600

PenaltyManager__save_penalty(s, identifier, penalty, t) ==
    InMemoryStore_set(s, PenaltyManager__get_penalty_key(identifier), penalty,
                      Some(PenaltyTTL), t)

\* get_penalty as a whole: its store.get and what it returns.
PenaltyManager_read(s, config, identifier, t) ==
    LET got == InMemoryStore_get(s, PenaltyManager__get_penalty_key(identifier), t)
    IN  [store |-> got.store,
         penalty |-> PenaltyManager_get_penalty(config, got.value, t)]

\* Check if penalty should be applied, whether or not one is active.
PenaltyManager_should_apply_WhileActive(config, penalty, t) ==
    penalty.abuse_score >= config.threshold * ScorePoint

\* Check if penalty should be applied.
PenaltyManager_should_apply(config, penalty, t) ==
    /\ penalty.abuse_score >= config.threshold * ScorePoint
    /\ ~Penalty_is_active(penalty, t)

\* PenaltyManager.record_violation: the Penalty it returns and the store it
\* leaves.
PenaltyManager_record_violation(s, config, identifier, severity, t) ==
    LET r == PenaltyManager_read(s, config, identifier, t)
        scored == [r.penalty EXCEPT
                     !.abuse_score = @ + severity * ScorePoint,
                     !.violations = @ + 1,
                     !.last_violation = Some(t \div TicksPerSec)]
        penalty ==
            IF PenaltyManager_should_apply(config, scored, t)
            THEN [scored EXCEPT !.penalty_until =
                                   Some(t \div TicksPerSec + config.duration)]
            ELSE scored
    IN  [store |-> PenaltyManager__save_penalty(r.store, identifier, penalty, t),
         penalty |-> penalty]

\* PenaltyManager.apply_penalty with duration = None.
PenaltyManager_apply_penalty(s, config, identifier, t) ==
    LET r == PenaltyManager_read(s, config, identifier, t)
        penalty == [r.penalty EXCEPT !.penalty_until =
                                        Some(t \div TicksPerSec + config.duration)]
    IN  [store |-> PenaltyManager__save_penalty(r.store, identifier, penalty, t),
         penalty |-> penalty]

\* PenaltyManager.clear_penalty
PenaltyManager_clear_penalty(s, identifier) ==
    InMemoryStore_delete(s, PenaltyManager__get_penalty_key(identifier))

\* PenaltyManager.get_rate_limit_multiplier
PenaltyManager_get_rate_limit_multiplier(s, config, identifier, t) ==
    LET r == PenaltyManager_read(s, config, identifier, t)
    IN  [store |-> r.store,
         penalty |-> r.penalty,
         multiplier |-> IF Penalty_is_active(r.penalty, t)
                        THEN config.multiplier ELSE <<1, 1>>]

\* ---- PenaltyManager over the in-memory store, one caller, one identifier
\* An operation as its caller saw it: its name, its severity, its time, the
\* store it found, the Penalty it returned (None for clear_penalty) and the
\* multiplier it returned.
PenaltyCall(op, severity, t, before, penalty, multiplier) ==
    [called |-> TRUE, op |-> op, severity |-> severity, now |-> t,
     before |-> before, penalty |-> penalty, multiplier |-> multiplier,
     prior |-> None]

\* state is what the caller remembers: when (whole seconds) record_violation
\* last engaged a penalty that no apply_penalty or clear_penalty has touched
\* since, the time of the last record_violation, and the score that
\* record_violation left when no clear_penalty has followed it.
NoViolation == [engaged |-> None, violated_at |-> None, left |-> None]

\* prior is the time and the returned Penalty of the operation just before,
\* when that was a record_violation too.
PenaltyRecord(call) ==
    /\ cur' = [call EXCEPT !.prior =
                  IF /\ call.op = "record_violation"
                     /\ cur.called /\ cur.op = "record_violation"
                  THEN Some([now |-> cur.now, penalty |-> cur.penalty[1]])
                  ELSE None]
    /\ calls' = calls + 1
    /\ UNCHANGED <<cfg, now, prev, allowedAt, pc, local, ledger>>

RecordViolation ==
    /\ calls < MaxAccesses
    /\ \E severity \in Severities :
         LET r == PenaltyManager_record_violation(store, cfg, Identifier,
                                                  severity, now)
             found == PenaltyManager_read(store, cfg, Identifier, now).penalty
         IN  /\ store' = r.store
             /\ state' = [engaged |->
                             IF r.penalty.penalty_until # found.penalty_until
                             THEN Some(now \div TicksPerSec)
                             ELSE state.engaged,
                          violated_at |-> Some(now),
                          left |-> Some(r.penalty.abuse_score)]
             /\ PenaltyRecord(PenaltyCall("record_violation", severity, now,
                                          store, Some(r.penalty), <<1, 1>>))

ApplyPenalty ==
    /\ calls < MaxAccesses
    /\ LET r == PenaltyManager_apply_penalty(store, cfg, Identifier, now)
       IN  /\ store' = r.store
           /\ state' = [state EXCEPT !.engaged = None]
           /\ PenaltyRecord(PenaltyCall("apply_penalty", 0, now, store,
                                        Some(r.penalty), <<1, 1>>))

ClearPenalty ==
    /\ calls < MaxAccesses
    /\ store' = PenaltyManager_clear_penalty(store, Identifier)
    /\ state' = [state EXCEPT !.engaged = None, !.left = None]
    /\ PenaltyRecord(PenaltyCall("clear_penalty", 0, now, store, None, <<1, 1>>))

GetPenalty ==
    /\ calls < MaxAccesses
    /\ LET r == PenaltyManager_read(store, cfg, Identifier, now)
       IN  /\ store' = r.store
           /\ PenaltyRecord(PenaltyCall("get_penalty", 0, now, store,
                                        Some(r.penalty), <<1, 1>>))
    /\ UNCHANGED state

GetRateLimitMultiplier ==
    /\ calls < MaxAccesses
    /\ LET r == PenaltyManager_get_rate_limit_multiplier(store, cfg,
                                                         Identifier, now)
       IN  /\ store' = r.store
           /\ PenaltyRecord(PenaltyCall("get_rate_limit_multiplier", 0, now,
                                        store, Some(r.penalty), r.multiplier))
    /\ UNCHANGED state

\* The clock starts at a whole hour.  It advances by one tick, once, to the
\* next whole hour while the threshold has not decayed at one point per
\* hour, or by the store's TTL, once.
PenaltyStart == 3600 * TicksPerSec

PenaltySteps ==
    LET HourTicks == 3600 * TicksPerSec
        TTLTicks == PenaltyTTL * TicksPerSec
        sinceTTL == (now - PenaltyStart) % TTLTicks
    IN  (IF now = PenaltyStart THEN {1} ELSE {})
        \cup (IF sinceTTL < cfg.threshold * HourTicks
              THEN {HourTicks - (sinceTTL % HourTicks)} ELSE {})
        \cup (IF now - PenaltyStart < TTLTicks THEN {TTLTicks} ELSE {})

PenaltyAdvance ==
    /\ \E dt \in PenaltySteps : now' = now + dt
    /\ UNCHANGED <<cfg, algVars, calls, storeVars>>

InitPenalty ==
    /\ cfg \in PenaltyConfigs
    /\ now = PenaltyStart
    /\ state = NoViolation
    /\ cur = NoCall
    /\ prev = NoCall
    /\ allowedAt = <<>>
    /\ calls = 0
    /\ store = EmptyStore
    /\ pc = <<>>
    /\ local = <<>>
    /\ ledger = 0

NextPenalty ==
    \/ RecordViolation
    \/ ApplyPenalty
    \/ ClearPenalty
    \/ GetPenalty
    \/ GetRateLimitMultiplier
    \/ PenaltyAdvance

SpecPenalty == InitPenalty /\ [][NextPenalty]_vars

\* ---- the limiter's check over the in-memory store, several callers, one key
\* RateLimiter.check, steps 3 to 5: read the prior state via the store (seed
\* it from the algorithm's initial state if absent), invoke the algorithm's
\* transition, persist the new state with TTL = window * 2 (bucket flavours).
\* The store contract offers get and set; each holds the store's lock for
\* its own duration only.
Limiter_key(p) == <<"halt", p.algorithm, "client">>

Limiter_transition(p, stored, cost, t) ==
    IF p.algorithm = "token_bucket"
    THEN LET prior == IF stored = None THEN TokenBucket_initial_state(p, t)
                      ELSE stored[1]
             r == TokenBucket_check_and_consume(p, prior.tokens,
                                                prior.last_refill, cost, t)
         IN  [decision |-> r.decision,
              state |-> [tokens |-> r.tokens, last_refill |-> r.last_refill]]
    ELSE LET prior == IF stored = None THEN LeakyBucket_initial_state(p, t)
                      ELSE stored[1]
             r == LeakyBucket_check_and_consume(p, prior.level,
                                                prior.last_leak, cost, t)
         IN  [decision |-> r.decision,
              state |-> [level |-> r.level, last_leak |-> r.last_leak]]

Limiter_ttl(p) == p.window * 2

\* Steps 3 and 4 of one check at time t: what it returns and what it leaves.
Limiter_load(s, p, cost, t) ==
    LET got == InMemoryStore_get(s, Limiter_key(p), t)
        r == Limiter_transition(p, got.value, cost, t)
    IN  [store |-> got.store, decision |-> r.decision, state |-> r.state]

\* Step 5 at time t.
Limiter_persist(s, p, new_state, t) ==
    InMemoryStore_set(s, Limiter_key(p), new_state, Some(Limiter_ttl(p)), t)

LimiterLoad(c) ==
    /\ pc[c] = "idle"
    /\ LET r == Limiter_load(store, cfg, PolicyCost, now)
       IN  /\ store' = r.store
           /\ local' = [local EXCEPT ![c] =
                          [decision |-> r.decision, state |-> r.state,
                           loaded_at |-> now, persisted_at |-> now]]
    /\ pc' = [pc EXCEPT ![c] = "persist"]
    /\ UNCHANGED <<cfg, now, algVars, calls, ledger>>

LimiterPersist(c) ==
    /\ pc[c] = "persist"
    /\ store' = Limiter_persist(store, cfg, local[c].state, now)
    /\ local' = [local EXCEPT ![c].persisted_at = now]
    /\ pc' = [pc EXCEPT ![c] = "done"]
    /\ UNCHANGED <<cfg, now, algVars, calls, ledger>>

LimiterTick == Tick(MaxStep)

InitLimiter ==
    /\ cfg \in Policies({"token_bucket", "leaky_bucket"})
    /\ now = 0
    /\ state = <<>>
    /\ cur = NoCall
    /\ prev = NoCall
    /\ allowedAt = <<>>
    /\ calls = 0
    /\ store = EmptyStore
    /\ pc = Idle
    /\ local = NoLocals
    /\ ledger = 0

NextLimiter ==
    \/ \E c \in Callers : LimiterLoad(c)
    \/ \E c \in Callers : LimiterPersist(c)
    \/ LimiterTick

SpecLimiter == InitLimiter /\ [][NextLimiter]_vars

\* The decisions of the callers' checks when they run one after the other in
\* the given order, each at the times it ran at, from store s.
RECURSIVE Limiter_serial(_, _)
Limiter_serial(order, s) ==
    IF order = <<>> THEN <<>>
    ELSE LET c == Head(order)
             r == Limiter_load(s, cfg, PolicyCost, local[c].loaded_at)
             s2 == Limiter_persist(r.store, cfg, r.state, local[c].persisted_at)
         IN  <<r.decision>> \o Limiter_serial(Tail(order), s2)

Orders == { o \in [1..NumCallers -> Callers] :
             \A i, j \in 1..NumCallers : i # j => o[i] # o[j] }

\* ---------------------------------------------------------- specifications
\* A key's state is seeded from the algorithm's initial_state at time 0 and
\* every returned state is fed into the next call.
InitialState(p) ==
    CASE p.algorithm = "token_bucket" -> TokenBucket_initial_state(p, 0)
      [] p.algorithm = "leaky_bucket" -> LeakyBucket_initial_state(p, 0)
      [] p.algorithm = "fixed_window" -> FixedWindow_initial_state(p, 0)
      [] p.algorithm = "sliding_window" -> SlidingWindow_initial_state

InitAlgorithm(algorithms) ==
    /\ cfg \in Policies(algorithms)
    /\ now = 0
    /\ state = InitialState(cfg)
    /\ cur = NoCall
    /\ prev = NoCall
    /\ allowedAt = <<>>
    /\ calls = 0
    /\ store = EmptyStore
    /\ pc = <<>>
    /\ local = <<>>
    /\ ledger = 0

InitTokenBucket == InitAlgorithm({"token_bucket"})
NextTokenBucket == TokenBucketCheck
SpecTokenBucket == InitTokenBucket /\ [][NextTokenBucket]_vars

InitLeakyBucket == InitAlgorithm({"leaky_bucket"})
NextLeakyBucket == LeakyBucketCheck
SpecLeakyBucket == InitLeakyBucket /\ [][NextLeakyBucket]_vars

InitFixedWindow == InitAlgorithm({"fixed_window"})
NextFixedWindow == FixedWindowCheck
SpecFixedWindow == InitFixedWindow /\ [][NextFixedWindow]_vars

InitSlidingWindow == InitAlgorithm({"sliding_window"})
NextSlidingWindow == SlidingWindowCheck
SpecSlidingWindow == InitSlidingWindow /\ [][NextSlidingWindow]_vars

InitBuckets == InitAlgorithm({"token_bucket", "leaky_bucket"})
NextBuckets == TokenBucketCheck \/ LeakyBucketCheck
SpecBuckets == InitBuckets /\ [][NextBuckets]_vars

InitWindows == InitAlgorithm({"fixed_window", "sliding_window"})
NextWindows == FixedWindowCheck \/ SlidingWindowCheck
SpecWindows == InitWindows /\ [][NextWindows]_vars

InitAlgorithms == InitAlgorithm(Algorithm)
NextAlgorithms ==
    \/ TokenBucketCheck
    \/ LeakyBucketCheck
    \/ FixedWindowCheck
    \/ SlidingWindowCheck
SpecAlgorithms == InitAlgorithms /\ [][NextAlgorithms]_vars

\* ================================================================== claims
\* The number of allowed calls in the closed interval between the i-th and
\* the j-th allowed call.  Every interval [t, t+T] holding k allowed calls
\* contains such an interval that is no longer.
Admitted(i, j) == j - i + 1
Span(i, j) == allowedAt[j] - allowedAt[i]

\* C1: token bucket admission bound -- the number of allowed requests inside
\* any interval [t, t+T] is at most burst + ceil(T * rate), rate =
\* limit / window, whatever the mix of allowed and denied calls.
C1_TokenBucketAdmissionBound ==
    cfg.algorithm = "token_bucket" =>
        \A i, j \in 1..Len(allowedAt) :
            i <= j =>
                Admitted(i, j) <= cfg.burst +
                    CeilDiv(Span(i, j) * cfg.limit, TicksPerSec * cfg.window)

\* The last call repeated the cost of the denied call before it, exactly
\* retry_after seconds after that denial.
RetriedAfterDenial ==
    /\ prev.called /\ ~prev.decision.allowed
    /\ cur.called /\ cur.cost = prev.cost
    /\ cur.now = prev.now + prev.decision.retry_after[1] * TicksPerSec

C3_NoLostQuotaUpdate ==
    LET key == QuotaManager__get_quota_key(Identifier, cfg.quota.name)
        boundary == FirstBoundary(cfg.quota.period)
    IN  ( /\ AllIdle
          /\ ledger > 0
          /\ now \div TicksPerSec < boundary )
        => /\ key \in DOMAIN store.data
           /\ store.data[key].current_usage = ledger

\* C4 as stated: recovery -- for the token bucket and the leaky bucket, a
\* request of cost c denied at time now with retry_after = r is allowed when
\* it is repeated at now + r with no other request in between.
C4_Recovery ==
    RetriedAfterDenial => cur.decision.allowed

\* C4 as amended: the same, for the costs the bucket can hold (c <= burst).
C4_RecoveryWithinCapacity ==
    (RetriedAfterDenial /\ cur.cost <= cfg.burst) => cur.decision.allowed

\* C4 witness: a denied leaky-bucket request that had to wait at least two
\* seconds and was then allowed.
C4_Witness ==
    /\ cfg.algorithm = "leaky_bucket"
    /\ RetriedAfterDenial
    /\ cur.cost <= cfg.burst
    /\ prev.decision.retry_after[1] >= 2
    /\ cur.decision.allowed

\* C5: header coherence -- every Decision of the four algorithms has, when
\* allowed, retry_after null and remaining >= 0 and, when denied,
\* remaining = 0, retry_after >= 1 and reset_at >= now.
C5_HeaderCoherence ==
    cur.called =>
        IF cur.decision.allowed
        THEN /\ cur.decision.retry_after = None
             /\ cur.decision.remaining >= 0
        ELSE /\ cur.decision.remaining = 0
             /\ cur.decision.retry_after # None
             /\ cur.decision.retry_after[1] >= 1
             /\ cur.decision.reset_at * TicksPerSec >= cur.now

\* C6: monotone remaining -- across successive same-cost checks on one key
\* inside one window during which no refill occurs, remaining does not rise.
C6_MonotoneRemaining ==
    ( /\ prev.called /\ cur.called
      /\ cur.cost = prev.cost
      /\ ~cur.refilled
      /\ cur.now - prev.now < cfg.window * TicksPerSec )
    => cur.decision.remaining <= prev.decision.remaining

\* C8: window-flavour admission bound -- for the fixed and the sliding
\* window, the number of allowed requests inside any interval [t, t+T] is at
\* most limit + ceil(T / window) * limit.
C8_WindowAdmissionBound ==
    cfg.algorithm \in {"fixed_window", "sliding_window"} =>
        \A i, j \in 1..Len(allowedAt) :
            i <= j =>
                Admitted(i, j) <= cfg.limit +
                    CeilDiv(Span(i, j), TicksPerSec * cfg.window) * cfg.limit

\* C8 witness: 2 * limit requests allowed inside less than one window, on
\* the two sides of a fixed-window boundary.
C8_Witness ==
    /\ cfg.algorithm = "fixed_window"
    /\ \E i, j \in 1..Len(allowedAt) :
         /\ i < j
         /\ Admitted(i, j) = 2 * cfg.limit
         /\ Span(i, j) > 0
         /\ Span(i, j) < cfg.window * TicksPerSec

\* C7: leaky bucket admission bound -- from the empty initial state, the
\* number of allowed requests inside any interval [t, t+T] is at most
\* burst + ceil(T * leak_rate), leak_rate = limit / window.
C7_LeakyBucketAdmissionBound ==
    cfg.algorithm = "leaky_bucket" =>
        \A i, j \in 1..Len(allowedAt) :
            i <= j =>
                Admitted(i, j) <= cfg.burst +
                    CeilDiv(Span(i, j) * cfg.limit, TicksPerSec * cfg.window)

\* C7 witness: a run that reached the bound over an interval in which time
\* passed, and whose last call was denied.
C7_Witness ==
    /\ cfg.algorithm = "leaky_bucket"
    /\ cur.called /\ ~cur.decision.allowed
    /\ \E i, j \in 1..Len(allowedAt) :
         /\ i < j
         /\ Span(i, j) > 0
         /\ Admitted(i, j) = cfg.burst +
                CeilDiv(Span(i, j) * cfg.limit, TicksPerSec * cfg.window)

\* C9: token bucket state invariant -- after any sequence of calls the
\* returned tokens value satisfies 0 <= tokens <= burst.
C9_TokenBucketStateInvariant ==
    cfg.algorithm = "token_bucket" =>
        /\ 0 <= state.tokens
        /\ state.tokens <= cfg.burst * Unit(cfg)

\* C9 witness: tokens were consumed, time passed, and a denied call returned
\* a bucket that the refill had filled up to the capacity.
C9_Witness ==
    /\ cfg.algorithm = "token_bucket"
    /\ prev.called /\ prev.decision.allowed
    /\ cur.called /\ ~cur.decision.allowed /\ cur.now > prev.now
    /\ state.tokens = cfg.burst * Unit(cfg)

\* C10: leaky bucket state invariant -- after any sequence of calls the
\* returned level satisfies 0 <= level <= capacity.
C10_LeakyBucketStateInvariant ==
    cfg.algorithm = "leaky_bucket" =>
        /\ 0 <= state.level
        /\ state.level <= cfg.burst * Unit(cfg)

\* C10 witness: the bucket was filled to its capacity, and a later call found
\* that more had leaked than the bucket held.
C10_Witness ==
    /\ cfg.algorithm = "leaky_bucket"
    /\ prev.called /\ prev.decision.allowed /\ prev.decision.remaining = 0
    /\ cur.called /\ ~cur.decision.allowed
    /\ state.level = 0

\* C11: fixed window state invariant -- after any sequence of calls at
\* non-decreasing times the returned state satisfies 0 <= count <= limit and
\* now - window_start < window.
C11_FixedWindowStateInvariant ==
    (cfg.algorithm = "fixed_window" /\ cur.called) =>
        /\ 0 <= state.count
        /\ state.count <= cfg.limit
        /\ now - state.window_start < cfg.window * TicksPerSec

\* C11 witness: a full window denied a request, and the next call, made
\* when exactly one window had elapsed, rolled the window before comparing
\* its cost with the limit and was allowed.
C11_Witness ==
    /\ cfg.algorithm = "fixed_window"
    /\ prev.called /\ ~prev.decision.allowed /\ prev.cost = 1
    /\ cur.called /\ cur.decision.allowed /\ cur.refilled
    /\ state.window_start = now
    /\ state.count = cur.cost

QuotaAccess ==
    cur.called /\ cur.op \in {"get_quota", "check_quota", "consume_quota"}

QuotaKey == QuotaManager__get_quota_key(Identifier, cfg.quota.name)

\* What has been consumed in the current UTC period, since the last
\* reset_quota, before the last operation applied its own cost.
UsedInPeriod ==
    ledger - (IF cur.op = "consume_quota" THEN cur.cost ELSE 0)

\* The rule of C13 read against the record's own reset_at only: an access
\* that finds a record with reset_at = R sees its current_usage when
\* now < R and 0 when now >= R.
ResetAtRecordBoundary ==
    (QuotaAccess /\ QuotaKey \in DOMAIN cur.before.data) =>
        LET rec == cur.before.data[QuotaKey]
        IN  cur.seen = IF cur.now < rec.reset_at * TicksPerSec
                       THEN rec.current_usage ELSE 0

\* C13: quota resets exactly at the boundary -- an access that finds a
\* record with reset_at = R sees the accumulated current_usage when now < R
\* and 0 when now >= R, before applying its own cost; so an access sees what
\* was consumed since the last UTC calendar boundary, and nothing at the
\* boundary itself.
C13_ResetAtBoundary ==
    /\ ResetAtRecordBoundary
    /\ (QuotaAccess /\ cur.now = now) => cur.seen = UsedInPeriod

\* R (seconds) is the first calendar boundary of the period, in UTC, that is
\* strictly greater than the time t (ticks).
FirstBoundaryAfter(period, R, t) ==
    LET grid == IF period = "hourly" THEN 3600 ELSE 86400
        secs == t \div TicksPerSec
    IN  /\ IsBoundary(period, R)
        /\ R * TicksPerSec > t
        /\ \A g \in (secs \div grid + 1)..(R \div grid - 1) :
              ~IsBoundary(period, g * grid)

\* C14: every quota snapshot returned by get_quota, check_quota or
\* consume_quota at time now has reset_at equal to the first HOURLY / DAILY /
\* MONTHLY / YEARLY calendar boundary, in UTC, strictly greater than now.
C14_ResetAtNextBoundary ==
    QuotaAccess =>
        FirstBoundaryAfter(cfg.quota.period, cur.quota.reset_at, cur.now)

\* C15: sequential quota bound -- for a single caller that consumes only
\* immediately after check_quota allowed the same cost, current_usage never
\* exceeds limit, check_quota returns allowed iff current_usage + cost <=
\* limit, and once `limit` has been consumed in the period the next
\* check_quota returns (false, remaining = 0).
C15_SequentialQuotaBound ==
    /\ QuotaKey \in DOMAIN store.data =>
          store.data[QuotaKey].current_usage <= cfg.quota.limit
    /\ (cur.called /\ cur.op = "check_quota") =>
          /\ cur.allowed <=> (cur.seen + cur.cost <= cfg.quota.limit)
          /\ (cur.now = now /\ ledger >= cfg.quota.limit) =>
                (~cur.allowed /\ Quota_remaining(cur.quota) = 0)

\* C16: check_quota is non-mutating -- it performs no store write or
\* delete: what the store holds for the key is the same before and after,
\* also after the record's reset_at has passed.  (The in-memory store's get
\* drops an entry whose TTL has run out, which no get could see any more.)
C16_CheckQuotaNonMutating ==
    (cur.called /\ cur.op = "check_quota") =>
        /\ InMemoryStore_get(store, QuotaKey, cur.now).value
             = InMemoryStore_get(cur.before, QuotaKey, cur.now).value
        /\ \/ store = cur.before
           \/ /\ InMemoryStore_get(cur.before, QuotaKey, cur.now).value = None
              /\ store = InMemoryStore_delete(cur.before, QuotaKey)

\* C16 witness: check_quota found a record with usage whose reset_at had
\* passed, returned a snapshot reset to 0, and left the record as it was.
C16_Witness ==
    /\ cur.called /\ cur.op = "check_quota"
    /\ QuotaKey \in DOMAIN store.data
    /\ store.data[QuotaKey].current_usage > 0
    /\ cur.now >= store.data[QuotaKey].reset_at * TicksPerSec
    /\ cur.seen = 0
    /\ cur.quota.reset_at > store.data[QuotaKey].reset_at
    /\ store = cur.before

\* The penalty record the store held for the identifier, as a get at the
\* time of the last operation would have returned it; no record reads as
\* Penalty().
PenaltyFound ==
    LET got == InMemoryStore_get(cur.before,
                                 PenaltyManager__get_penalty_key(Identifier),
                                 cur.now)
    IN  IF got.value = None THEN Penalty_default ELSE got.value[1]

\* A penalty_until that is set and lies after the time t (ticks).
ActiveAt(penalty_until, t) ==
    penalty_until # None /\ penalty_until[1] * TicksPerSec > t

\* C17: penalty engagement rule -- record_violation sets penalty_until =
\* now + duration (now in whole seconds, as the clock is read) exactly when
\* the score after adding the severity is >= threshold and no penalty is
\* active at now; in every other case it leaves penalty_until unchanged.
C17_PenaltyEngagement ==
    (cur.called /\ cur.op = "record_violation") =>
        LET returned == cur.penalty[1]
            engages == /\ returned.abuse_score >= cfg.threshold * ScorePoint
                       /\ ~ActiveAt(PenaltyFound.penalty_until, cur.now)
        IN  returned.penalty_until =
                IF engages
                THEN Some(cur.now \div TicksPerSec + cfg.duration)
                ELSE PenaltyFound.penalty_until

\* C17 witness: a violation recorded in a later second of an active penalty
\* brought a score at or over the threshold and left penalty_until where
\* the engagement had put it.
C17_Witness ==
    /\ cur.called /\ cur.op = "record_violation"
    /\ cur.penalty[1].abuse_score >= cfg.threshold * ScorePoint
    /\ state.engaged # None
    /\ cur.now \div TicksPerSec > state.engaged[1]
    /\ ActiveAt(PenaltyFound.penalty_until, cur.now)
    /\ cur.penalty[1].penalty_until = Some(state.engaged[1] + cfg.duration)

\* C18: get_rate_limit_multiplier returns config.multiplier exactly when the
\* penalty is active (penalty_until set and > now) and 1.0 otherwise; after
\* a penalty engages at time t it returns the multiplier for every query in
\* [t, t + duration) and 1.0 for every query at or after t + duration, with
\* no explicit clear (t in whole seconds, as the clock is read).
C18_MultiplierWhileActive ==
    (cur.called /\ cur.op = "get_rate_limit_multiplier") =>
        /\ cur.multiplier =
              IF ActiveAt(PenaltyFound.penalty_until, cur.now)
              THEN cfg.multiplier ELSE <<1, 1>>
        /\ state.engaged # None =>
              cur.multiplier =
                  IF cur.now < (state.engaged[1] + cfg.duration) * TicksPerSec
                  THEN cfg.multiplier ELSE <<1, 1>>

\* C19: full decay -- if no violation is recorded for threshold / decay_rate
\* hours after the last violation, get_penalty then returns abuse_score = 0.
C19_FullDecay ==
    ( /\ cur.called /\ cur.op = "get_penalty"
      /\ state.violated_at # None
      /\ (cur.now - state.violated_at[1]) * cfg.decay_rate
            >= cfg.threshold * ScorePoint )
    => cur.penalty[1].abuse_score = 0

\* C20: abuse score is never negative and never drops between same-second
\* violations -- every abuse_score returned or stored is >= 0, and across
\* consecutive record_violation calls within the same second the returned
\* abuse_score is non-decreasing.
C20_ScoreMonotoneWithinSecond ==
    /\ (cur.called /\ cur.penalty # None) => cur.penalty[1].abuse_score >= 0
    /\ \A k \in DOMAIN store.data : store.data[k].abuse_score >= 0
    /\ ( /\ cur.called /\ cur.op = "record_violation"
         /\ cur.prior # None
         /\ cur.now \div TicksPerSec = cur.prior[1].now \div TicksPerSec )
       => cur.penalty[1].abuse_score >= cur.prior[1].penalty.abuse_score

\* A quota entry of the store is kept at least until its reset_at.
QuotaEntriesOutliveReset ==
    \A k \in DOMAIN store.expiry :
        k[2] = "quota" =>
            store.expiry[k] >= store.data[k].reset_at * TicksPerSec

\* A penalty entry of the store is kept at least until its penalty_until.
PenaltyEntriesOutlivePenalty ==
    \A k \in DOMAIN store.expiry :
        (k[2] = "penalty" /\ store.data[k].penalty_until # None) =>
            store.expiry[k] >= store.data[k].penalty_until[1] * TicksPerSec

\* A penalty entry of the store is kept at least until the decay from its
\* last_violation has brought its abuse_score to 0.
PenaltyEntriesOutliveScore ==
    \A k \in DOMAIN store.expiry :
        (k[2] = "penalty" /\ store.data[k].abuse_score > 0) =>
            LET penalty == store.data[k]
            IN  /\ penalty.last_violation # None
                /\ penalty.last_violation[1] # 0
                /\ PenaltyManager_decay(cfg, penalty, store.expiry[k]) = 0

\* C21: entries outlive their meaning -- every quota and penalty entry has
\* a deadline no earlier than its reset_at (quota), its penalty_until and
\* the time its decayed abuse score reaches 0 (penalty), so the store evicts
\* no quota record before its reset_at and no penalty record whose penalty
\* is still active or whose decayed score is still above 0.
C21_EntriesOutliveMeaning ==
    /\ QuotaEntriesOutliveReset
    /\ PenaltyEntriesOutlivePenalty
    /\ PenaltyEntriesOutliveScore

\* --------------------------------------------------------------- telemetry
\* The capability set of TelemetryHooks.
TelemetryEvents ==
    {"on_check", "on_allowed", "on_blocked", "on_quota_check",
     "on_quota_exceeded", "on_penalty_applied", "on_violation"}

\* An observer is known by the events its method raises on: none, every
\* one, or on_blocked only.
HookKinds == {{}, TelemetryEvents, {"on_blocked"}}

\* CompositeTelemetry(*hooks): the hooks in registration order.
CompositeTelemetry_hooks ==
    UNION {[1..n -> HookKinds] : n \in 1..MaxHooks}

\* `for hook in self.hooks: hook.<event>(...)` from hook i on: the hooks
\* called so far, and whether a call raised.  A raise leaves the loop and
\* the method.
RECURSIVE CompositeTelemetry_for_hook(_, _, _, _)
CompositeTelemetry_for_hook(hooks, event, i, notified) ==
    IF i > Len(hooks)
    THEN [notified |-> notified, raised |-> FALSE]
    ELSE IF event \in hooks[i]
         THEN [notified |-> Append(notified, i), raised |-> TRUE]
         ELSE CompositeTelemetry_for_hook(hooks, event, i + 1,
                                          Append(notified, i))

CompositeTelemetry_on_check(hooks) ==
    CompositeTelemetry_for_hook(hooks, "on_check", 1, <<>>)

CompositeTelemetry_on_allowed(hooks) ==
    CompositeTelemetry_for_hook(hooks, "on_allowed", 1, <<>>)

CompositeTelemetry_on_blocked(hooks) ==
    CompositeTelemetry_for_hook(hooks, "on_blocked", 1, <<>>)

CompositeTelemetry_on_quota_check(hooks) ==
    CompositeTelemetry_for_hook(hooks, "on_quota_check", 1, <<>>)

CompositeTelemetry_on_quota_exceeded(hooks) ==
    CompositeTelemetry_for_hook(hooks, "on_quota_exceeded", 1, <<>>)

CompositeTelemetry_on_penalty_applied(hooks) ==
    CompositeTelemetry_for_hook(hooks, "on_penalty_applied", 1, <<>>)

CompositeTelemetry_on_violation(hooks) ==
    CompositeTelemetry_for_hook(hooks, "on_violation", 1, <<>>)

\* A dispatch as its caller saw it; state is what each observer has been
\* notified of so far, oldest first.
Dispatch(event, r) ==
    /\ calls < MaxDispatches
    /\ cur' = [called |-> TRUE, event |-> event, notified |-> r.notified,
               raised |-> r.raised]
    /\ state' = [h \in DOMAIN state |->
                    IF \E j \in DOMAIN r.notified : r.notified[j] = h
                    THEN Append(state[h], event) ELSE state[h]]
    /\ calls' = calls + 1
    /\ UNCHANGED <<cfg, now, prev, allowedAt, storeVars>>

OnCheck == Dispatch("on_check", CompositeTelemetry_on_check(cfg.hooks))
OnAllowed == Dispatch("on_allowed", CompositeTelemetry_on_allowed(cfg.hooks))
OnBlocked == Dispatch("on_blocked", CompositeTelemetry_on_blocked(cfg.hooks))
OnQuotaCheck ==
    Dispatch("on_quota_check", CompositeTelemetry_on_quota_check(cfg.hooks))
OnQuotaExceeded ==
    Dispatch("on_quota_exceeded",
             CompositeTelemetry_on_quota_exceeded(cfg.hooks))
OnPenaltyApplied ==
    Dispatch("on_penalty_applied",
             CompositeTelemetry_on_penalty_applied(cfg.hooks))
OnViolation ==
    Dispatch("on_violation", CompositeTelemetry_on_violation(cfg.hooks))

InitTelemetry ==
    /\ \E hooks \in CompositeTelemetry_hooks : cfg = [hooks |-> hooks]
    /\ now = 0
    /\ state = [h \in DOMAIN cfg.hooks |-> <<>>]
    /\ cur = NoCall
    /\ prev = NoCall
    /\ allowedAt = <<>>
    /\ calls = 0
    /\ store = EmptyStore
    /\ pc = <<>>
    /\ local = <<>>
    /\ ledger = 0

NextTelemetry ==
    \/ OnCheck
    \/ OnAllowed
    \/ OnBlocked
    \/ OnQuotaCheck
    \/ OnQuotaExceeded
    \/ OnPenaltyApplied
    \/ OnViolation

SpecTelemetry == InitTelemetry /\ [][NextTelemetry]_vars

\* C22: observer errors are swallowed -- whatever observer raises while
\* CompositeTelemetry dispatches an event, every registered observer is
\* notified, in registration order, and no error reaches the caller.
C22_ObserverErrorsSwallowed ==
    cur.called =>
        /\ ~cur.raised
        /\ cur.notified = [i \in 1..Len(cfg.hooks) |-> i]

\* ----------------------------------------------------- policy construction
\* The arguments of Policy(name, limit, window, burst = None, cost = 1):
\* integers around zero, burst None when it is not supplied.
PolicyArgs ==
    [limit : -1..MaxPolicyLimit, window : -1..MaxWindow,
     burst : {None} \cup {Some(b) : b \in -1..MaxPolicyLimit + 1},
     cost : -1..MaxCost]

\* Default burst is 20% more than limit: int(self.limit * 1.2).  The float
\* product truncates to the integer part of 6 * limit / 5.
Policy_default_burst(limit) == IntTrunc(limit * 6, 5)

\* `if self.burst < self.limit`, never true.
Policy_burst_below_limit_Unchecked(burst, limit) == FALSE

\* `if self.burst < self.limit`
Policy_burst_below_limit(burst, limit) == burst < limit

\* Policy.__post_init__: the ValueError it raises, or the Policy it leaves.
Policy___post_init__(args) ==
    LET burst == IF args.burst = None
                 THEN Policy_default_burst(args.limit)
                 ELSE args.burst[1]
        raise(message) == [error |-> Some(message), policy |-> None]
    IN  IF args.limit <= 0 THEN raise("limit must be positive")
        ELSE IF args.window <= 0 THEN raise("window must be positive")
        ELSE IF args.cost <= 0 THEN raise("cost must be positive")
        ELSE IF Policy_burst_below_limit(burst, args.limit)
             THEN raise("burst must be >= limit")
        ELSE [error |-> None,
              policy |-> Some([limit |-> args.limit, window |-> args.window,
                               burst |-> burst, cost |-> args.cost])]

\* A construction as its caller saw it.
Construct ==
    /\ \E args \in PolicyArgs :
         LET r == Policy___post_init__(args)
         IN  cur' = [called |-> TRUE, args |-> args, error |-> r.error,
                     policy |-> r.policy]
    /\ UNCHANGED <<cfg, now, state, prev, allowedAt, calls, storeVars>>

InitPolicy ==
    /\ cfg = <<>>
    /\ now = 0
    /\ state = <<>>
    /\ cur = NoCall
    /\ prev = NoCall
    /\ allowedAt = <<>>
    /\ calls = 0
    /\ store = EmptyStore
    /\ pc = <<>>
    /\ local = <<>>
    /\ ledger = 0

NextPolicy == Construct

SpecPolicy == InitPolicy /\ [][NextPolicy]_vars

\* C23: Policy rejects invalid parameters at creation -- the construction
\* fails whenever limit <= 0, window <= 0, cost <= 0 or the burst given is
\* below limit, and only then; every Policy that exists has limit > 0,
\* window > 0, cost >= 1 and burst >= limit, whether burst was given or
\* defaulted.
C23_PolicyRejectsInvalid ==
    cur.called =>
        /\ cur.error # None <=>
              \/ cur.args.limit <= 0
              \/ cur.args.window <= 0
              \/ cur.args.cost <= 0
              \/ (cur.args.burst # None /\ cur.args.burst[1] < cur.args.limit)
        /\ cur.error # None <=> cur.policy = None
        /\ cur.policy # None =>
              /\ cur.policy[1].limit > 0
              /\ cur.policy[1].window > 0
              /\ cur.policy[1].cost >= 1
              /\ cur.policy[1].burst >= cur.policy[1].limit

\* C23 witness: a construction with valid limit, window and cost was
\* rejected for its burst alone.
C23_Witness ==
    /\ cur.called
    /\ cur.args.limit > 0 /\ cur.args.window > 0 /\ cur.args.cost > 0
    /\ cur.args.burst # None /\ cur.args.burst[1] < cur.args.limit
    /\ cur.error = Some("burst must be >= limit")

\* C25: default burst -- when burst is not supplied, the Policy constructed
\* for a positive limit has burst = ceil(limit * 1.2).
C25_DefaultBurst ==
    (cur.called /\ cur.args.burst = None /\ cur.policy # None) =>
        cur.policy[1].burst = CeilDiv(cur.args.limit * 6, 5)

\* ------------------------------------------------------ quota construction
\* The arguments of Quota(name, limit, period, current_usage = 0,
\* reset_at = None): a limit around zero, a period of QuotaPeriod or a
\* string that is none, reset_at supplied or not.
QuotaArgs ==
    [limit : -1..MaxLimit, period : QuotaPeriod \cup {"weekly"},
     reset_at : {None, Some(FirstBoundary("hourly"))}]

\* Quota.__post_init__ at clock t: reset_at is computed when it is not
\* provided, and _calculate_reset_time raises ValueError for a period it
\* does not know.  Nothing else is looked at.
Quota___post_init__(args, t, utcoffset) ==
    IF args.reset_at # None
    THEN [error |-> None,
          quota |-> Some(Quota("requests", args.limit, args.period, 0,
                               args.reset_at[1]))]
    ELSE IF args.period \notin QuotaPeriod
         THEN [error |-> Some("Invalid quota period"), quota |-> None]
         ELSE [error |-> None,
               quota |-> Some(Quota("requests", args.limit, args.period, 0,
                                    Quota__calculate_reset_time(
                                        args.period, t, utcoffset)))]

\* state is the construction as its caller saw it; cfg.quota is the Quota
\* it left, if any.
NotConstructed == [constructed |-> FALSE]

ConstructQuota ==
    /\ ~state.constructed
    /\ \E args \in QuotaArgs :
         LET r == Quota___post_init__(args, now, cfg.utcoffset)
         IN  /\ state' = [constructed |-> TRUE, args |-> args,
                          error |-> r.error]
             /\ cfg' = [cfg EXCEPT !.quota =
                          IF r.quota = None THEN None ELSE r.quota[1]]
    /\ UNCHANGED <<now, cur, prev, allowedAt, calls, storeVars>>

\* The constructed Quota is handed to the QuotaManager.  With a period that
\* is not of QuotaPeriod every access raises in get_quota; the accesses are
\* those of the Quotas with a known period.
Constructed ==
    /\ state.constructed
    /\ state.error = None
    /\ cfg.quota.period \in QuotaPeriod

GetConstructed == Constructed /\ GetQuota
CheckConstructed == Constructed /\ CheckQuota
ConsumeConstructed == Constructed /\ ConsumeQuota

InitQuotaConstruct ==
    /\ cfg = [quota |-> None, utcoffset |-> 0]
    /\ now = 0
    /\ state = NotConstructed
    /\ cur = NoCall
    /\ prev = NoCall
    /\ allowedAt = <<>>
    /\ calls = 0
    /\ store = EmptyStore
    /\ pc = <<>>
    /\ local = <<>>
    /\ ledger = 0

NextQuotaConstruct ==
    \/ ConstructQuota
    \/ GetConstructed
    \/ CheckConstructed
    \/ ConsumeConstructed

SpecQuotaConstruct == InitQuotaConstruct /\ [][NextQuotaConstruct]_vars

\* C24: quota misconfiguration is surfaced at construction -- creating a
\* Quota with a non-positive limit or an unknown period fails, so no Quota
\* with limit <= 0 reaches check_quota or consume_quota.
C24_QuotaRejectsInvalid ==
    /\ state.constructed =>
          ((state.args.limit <= 0 \/ state.args.period \notin QuotaPeriod)
              => state.error # None)
    /\ (cur.called /\ cur.op \in {"check_quota", "consume_quota"}) =>
          cfg.quota.limit > 0

\* ------------------------------------------- in-memory store, one caller
\* The values of the store's own specifications: a number, or an object
\* that is none (a dict).  isinstance(current, (int, float)) is v.num.
Num(n) == [num |-> TRUE, v |-> n]
Obj == [num |-> FALSE, v |-> 0]

\* increment, after _cleanup_expired left the store s: current, which is 0
\* for a missing key and for a value that is no number.
InMemoryStore_increment_current(s, key) ==
    LET found == IF key \in DOMAIN s.data THEN s.data[key] ELSE Num(0)
    IN  IF found.num THEN found.v ELSE 0

\* increment, the writes: self._data[key] = new_value, and the TTL only if
\* the key has no deadline.
InMemoryStore_increment_write(s, key, new_value, ttl, t) ==
    [data |-> DictSet(s.data, key, Num(new_value)),
     expiry |-> IF key \notin DOMAIN s.expiry /\ ttl # None
                THEN DictSet(s.expiry, key, t + ttl[1] * TicksPerSec)
                ELSE s.expiry]

\* InMemoryStore.increment: the store it leaves and the int it returns.
InMemoryStore_increment(s, key, delta, ttl, t) ==
    LET s1 == InMemoryStore__cleanup_expired(s, key, t)
        current == InMemoryStore_increment_current(s1, key)
        new_value == current + delta
    IN  [store |-> InMemoryStore_increment_write(s1, key, new_value, ttl, t),
         value |-> new_value]

\* InMemoryStore.cleanup_all_expired: the store it leaves and the number of
\* keys cleaned up.
InMemoryStore_cleanup_all_expired(s, t) ==
    LET expired_keys == {k \in DOMAIN s.expiry : t >= s.expiry[k]}
    IN  [store |-> [data |-> [k \in DOMAIN s.data \ expired_keys |-> s.data[k]],
                    expiry |-> [k \in DOMAIN s.expiry \ expired_keys |->
                                  s.expiry[k]]],
         value |-> Cardinality(expired_keys)]

StoreKeys == {"a", "b"}
StoreValues == {Obj, Num(1)}
StoreTTLs == {None, Some(MaxTTL)}

\* A store operation as its caller saw it: the arguments, the clock, what it
\* returned, and whether the store held the key, and with what deadline,
\* when it was called.
StoreCall(op, key, value, ttl, result) ==
    [called |-> TRUE, op |-> op, key |-> key, value |-> value, ttl |-> ttl,
     now |-> now, result |-> result,
     held |-> key \in DOMAIN store.data,
     deadline |-> IF key \in DOMAIN store.expiry
                  THEN Some(store.expiry[key]) ELSE None]

\* state is the caller's record of its writes: for each key written by set
\* or increment and not deleted since, the value last written and the
\* deadline the store gave it.
Written(s, key, value) ==
    DictSet(state, key,
            [value |-> value,
             deadline |-> IF key \in DOMAIN s.expiry
                          THEN Some(s.expiry[key]) ELSE None])

StoreOp(call) ==
    /\ calls < MaxStoreOps
    /\ cur' = call
    /\ calls' = calls + 1
    /\ UNCHANGED <<cfg, now, prev, allowedAt, pc, local, ledger>>

StoreGet ==
    \E key \in StoreKeys :
        LET r == InMemoryStore_get(store, key, now)
        IN  /\ store' = r.store
            /\ state' = state
            /\ StoreOp(StoreCall("get", key, None, None, r.value))

StoreSet ==
    \E key \in StoreKeys, value \in StoreValues, ttl \in StoreTTLs :
        LET s == InMemoryStore_set(store, key, value, ttl, now)
        IN  /\ store' = s
            /\ state' = Written(s, key, value)
            /\ StoreOp(StoreCall("set", key, Some(value), ttl, None))

StoreIncrement ==
    \E key \in StoreKeys, delta \in Costs, ttl \in StoreTTLs :
        LET r == InMemoryStore_increment(store, key, delta, ttl, now)
        IN  /\ store' = r.store
            /\ state' = Written(r.store, key, Num(r.value))
            /\ StoreOp(StoreCall("increment", key, Some(Num(delta)), ttl,
                                 Some(Num(r.value))))

StoreDelete ==
    \E key \in StoreKeys :
        /\ store' = InMemoryStore_delete(store, key)
        /\ state' = DictPop(state, key)
        /\ StoreOp(StoreCall("delete", key, None, None, None))

StoreCleanupAll ==
    LET r == InMemoryStore_cleanup_all_expired(store, now)
    IN  /\ store' = r.store
        /\ state' = state
        /\ StoreOp(StoreCall("cleanup_all_expired", "a", None, None,
                             Some(Num(r.value))))

\* The clock starts when the first deadlines are set; it advances to one
\* tick before the longest TTL runs out, then by a tick to that deadline,
\* then by a tick past it.
StoreHorizon == MaxTTL * TicksPerSec + 1

StoreAdvance ==
    /\ now < StoreHorizon
    /\ now' = IF now = 0 THEN MaxTTL * TicksPerSec - 1 ELSE now + 1
    /\ UNCHANGED <<cfg, algVars, calls, storeVars>>

InitStore ==
    /\ cfg = <<>>
    /\ now = 0
    /\ state = <<>>
    /\ cur = NoCall
    /\ prev = NoCall
    /\ allowedAt = <<>>
    /\ calls = 0
    /\ store = EmptyStore
    /\ pc = <<>>
    /\ local = <<>>
    /\ ledger = 0

NextStore ==
    \/ StoreGet
    \/ StoreSet
    \/ StoreIncrement
    \/ StoreDelete
    \/ StoreCleanupAll
    \/ StoreAdvance

SpecStore == InitStore /\ [][NextStore]_vars

\* The caller's record of key holds a value whose deadline, if any, lies
\* after the time t.
Live(key, t) ==
    /\ key \in DOMAIN state
    /\ state[key].deadline # None => state[key].deadline[1] > t

\* C26: in-memory store get/set semantics -- after any sequence of set,
\* delete, increment and cleanup calls, get(k) returns the most recently
\* written value of k, unless k was never written, was deleted or carries a
\* deadline <= now: then it returns null and the store holds k no more.
\* set with a TTL stores the deadline now + ttl; set with null TTL leaves k
\* without a deadline, whatever deadline it had.
C26_GetSetSemantics ==
    /\ (cur.called /\ cur.op = "get") =>
          /\ cur.result = IF Live(cur.key, cur.now)
                          THEN Some(state[cur.key].value) ELSE None
          /\ cur.result = None =>
                /\ cur.key \notin DOMAIN store.data
                /\ cur.key \notin DOMAIN store.expiry
    /\ (cur.called /\ cur.op = "set") =>
          /\ store.data[cur.key] = cur.value[1]
          /\ IF cur.ttl # None
             THEN /\ cur.key \in DOMAIN store.expiry
                  /\ store.expiry[cur.key] = cur.now + cur.ttl[1] * TicksPerSec
             ELSE cur.key \notin DOMAIN store.expiry

\* C26 witness: a get at the very deadline of a key returned null and
\* evicted the key, whose value the caller had written and not deleted.
C26_Witness ==
    /\ cur.called /\ cur.op = "get"
    /\ cur.key \in DOMAIN state
    /\ cur.deadline = Some(cur.now)
    /\ cur.result = None
    /\ cur.key \notin DOMAIN store.data

\* The deadline the store holds for the key of the last operation.
DeadlineNow ==
    IF cur.key \in DOMAIN store.expiry
    THEN Some(store.expiry[cur.key]) ELSE None

\* The key of the last operation existed when it was called: the store
\* held it and its deadline, if any, had not come.
Existed ==
    cur.held /\ (cur.deadline # None => cur.deadline[1] > cur.now)

\* C27: increment anchors the TTL to first use -- increment treats a
\* missing or expired key as 0 and gives the key it newly creates the
\* deadline now + ttl (none for a null ttl); incrementing a key that exists
\* leaves the key's expiry as it was, however the key was created.
C27_IncrementAnchorsTTL ==
    (cur.called /\ cur.op = "increment") =>
        IF Existed
        THEN DeadlineNow = cur.deadline
        ELSE /\ cur.result = cur.value
             /\ DeadlineNow = IF cur.ttl # None
                              THEN Some(cur.now + cur.ttl[1] * TicksPerSec)
                              ELSE None

\* -------------------------------------- in-memory store, several callers
\* self._lock = threading.RLock(): held by no thread, or by one.  A thread
\* that takes the lock without waiting for it.
RLock_acquire_Unlocked(lock, c) == TRUE

\* `with self._lock:` is entered by thread c when no other thread holds it.
RLock_acquire(lock, c) == lock = None \/ lock = Some(c)

\* The key the callers increment.
SharedKey == "a"

\* increment(key, delta, ttl) by thread c, statement by statement: take the
\* lock; _cleanup_expired and current = self._data.get(key, 0); the writes;
\* return int(new_value), releasing the lock.
IncrementAcquire(c) ==
    /\ pc[c] = "idle"
    /\ RLock_acquire(state.lock, c)
    /\ state' = [state EXCEPT !.lock = Some(c)]
    /\ \E delta \in Costs, ttl \in StoreTTLs :
         local' = [local EXCEPT ![c] = [delta |-> delta, ttl |-> ttl]]
    /\ pc' = [pc EXCEPT ![c] = "read"]
    /\ UNCHANGED <<cfg, now, cur, prev, allowedAt, calls, store, ledger>>

IncrementRead(c) ==
    /\ pc[c] = "read"
    /\ LET s1 == InMemoryStore__cleanup_expired(store, SharedKey, now)
           current == InMemoryStore_increment_current(s1, SharedKey)
       IN  /\ store' = s1
           /\ local' = [local EXCEPT ![c] =
                          [delta |-> local[c].delta, ttl |-> local[c].ttl,
                           new_value |-> current + local[c].delta]]
    /\ pc' = [pc EXCEPT ![c] = "write"]
    /\ UNCHANGED <<cfg, now, algVars, calls, ledger>>

IncrementWrite(c) ==
    /\ pc[c] = "write"
    /\ store' = InMemoryStore_increment_write(store, SharedKey,
                                              local[c].new_value,
                                              local[c].ttl, now)
    /\ pc' = [pc EXCEPT ![c] = "return"]
    /\ UNCHANGED <<cfg, now, algVars, calls, local, ledger>>

IncrementReturn(c) ==
    /\ pc[c] = "return"
    /\ state' = [state EXCEPT !.lock = None]
    /\ pc' = [pc EXCEPT ![c] = "done"]
    /\ ledger' = ledger + local[c].delta
    /\ UNCHANGED <<cfg, now, cur, prev, allowedAt, calls, store, local>>

\* get(key) by a further thread: its body runs under the lock.
ConcurrentGet ==
    /\ calls < NumCallers
    /\ RLock_acquire(state.lock, 0)
    /\ LET r == InMemoryStore_get(store, SharedKey, now)
       IN  /\ store' = r.store
           /\ cur' = [called |-> TRUE, op |-> "get", result |-> r.value]
    /\ calls' = calls + 1
    /\ UNCHANGED <<cfg, now, state, prev, allowedAt, pc, local, ledger>>

\* The key is in the store, unexpired: with a number, and with no deadline
\* or one that the clock, which stands still, does not reach.
InitStoreConcurrent ==
    /\ cfg \in [initial : 0..1, deadline : {None, Some(MaxTTL * TicksPerSec)}]
    /\ now = 0
    /\ state = [lock |-> None]
    /\ cur = NoCall
    /\ prev = NoCall
    /\ allowedAt = <<>>
    /\ calls = 0
    /\ store = [data |-> DictSet(<<>>, SharedKey, Num(cfg.initial)),
                expiry |-> IF cfg.deadline = None THEN <<>>
                           ELSE DictSet(<<>>, SharedKey, cfg.deadline[1])]
    /\ pc = Idle
    /\ local = NoLocals
    /\ ledger = 0

NextStoreConcurrent ==
    \/ \E c \in Callers : IncrementAcquire(c)
    \/ \E c \in Callers : IncrementRead(c)
    \/ \E c \in Callers : IncrementWrite(c)
    \/ \E c \in Callers : IncrementReturn(c)
    \/ ConcurrentGet

SpecStoreConcurrent == InitStoreConcurrent /\ [][NextStoreConcurrent]_vars

\* The sum of the deltas of the first i callers of an order.
RECURSIVE PrefixSum(_, _)
PrefixSum(o, i) ==
    IF i = 0 THEN 0 ELSE PrefixSum(o, i - 1) + local[o[i]].delta

\* C28: increment is an atomic integer add -- when the concurrent
\* increment(k, delta) calls on one unexpired key have all returned, with
\* gets in between, the value of k is the initial value plus the sum of
\* the deltas, and the values returned are the prefix sums of one serial
\* order of the calls.
C28_IncrementAtomic ==
    (\A c \in Callers : pc[c] = "done") =>
        /\ store.data[SharedKey] = Num(cfg.initial + ledger)
        /\ \E o \in Orders :
              \A i \in 1..NumCallers :
                  local[o[i]].new_value = cfg.initial + PrefixSum(o, i)

\* C28 witness: all the increments have returned, with two different
\* values, and a get that ran between them saw the first of them.
C28_Witness ==
    /\ \A c \in Callers : pc[c] = "done"
    /\ \E c, d \in Callers : local[c].new_value < local[d].new_value
    /\ cur.called
    /\ \E c \in Callers :
          /\ cur.result = Some(Num(local[c].new_value))
          /\ store.data[SharedKey] # Num(local[c].new_value)

\* -------------------------------------------------------------- extractors
\* Strings are sequences of characters.  An IP address is one digit, of
\* AddrBits bits; a network is "b/p", an address and a prefix length.
Digits == <<"0", "1", "2", "3", "4", "5", "6", "7", "8", "9">>
DigitChar(n) == Digits[n + 1]
IsDigit(ch) == \E n \in 0..9 : Digits[n + 1] = ch
DigitValue(ch) == CHOOSE n \in 0..9 : Digits[n + 1] = ch
LastAddr == 2 ^ AddrBits - 1

\* ipaddress.ip_address: the address, or None for a ValueError.
ip_address(str) ==
    IF Len(str) = 1 /\ IsDigit(str[1]) /\ DigitValue(str[1]) <= LastAddr
    THEN Some(DigitValue(str[1]))
    ELSE None

\* ipaddress.ip_network (strict): the network, or None for a ValueError;
\* an address with host bits set is a ValueError.
ip_network(str) ==
    IF /\ Len(str) = 3 /\ str[2] = "/"
       /\ ip_address(<<str[1]>>) # None
       /\ IsDigit(str[3]) /\ DigitValue(str[3]) <= AddrBits
       /\ DigitValue(str[1]) % (2 ^ (AddrBits - DigitValue(str[3]))) = 0
    THEN Some([network_address |-> DigitValue(str[1]),
               prefixlen |-> DigitValue(str[3])])
    ELSE None

\* ip_addr in network
InNetwork(ip_addr, network) ==
    LET hosts == 2 ^ (AddrBits - network.prefixlen)
    IN  ip_addr \div hosts = network.network_address \div hosts

\* _is_trusted_proxy that trusts every peer.
extractors__is_trusted_proxy_Any(ip, trusted_proxies) == TRUE

\* _is_trusted_proxy: Check if IP is in trusted proxy list.  An entry that
\* does not parse is passed over; an ip that does not parse is not trusted.
extractors__is_trusted_proxy(ip, trusted_proxies) ==
    /\ ip_address(ip) # None
    /\ \E i \in DOMAIN trusted_proxies :
          LET proxy == trusted_proxies[i]
          IN  IF \E j \in DOMAIN proxy : proxy[j] = "/"
              THEN /\ ip_network(proxy) # None
                   /\ InNetwork(ip_address(ip)[1], ip_network(proxy)[1])
              ELSE /\ ip_address(proxy) # None
                   /\ ip_address(ip) = ip_address(proxy)

\* forwarded.split(",")[0]
RECURSIVE SplitFirst(_)
SplitFirst(str) ==
    IF str = <<>> \/ Head(str) = "," THEN <<>>
    ELSE <<Head(str)>> \o SplitFirst(Tail(str))

\* str.strip()
RECURSIVE LStrip(_)
LStrip(str) ==
    IF str # <<>> /\ Head(str) = " " THEN LStrip(Tail(str)) ELSE str

RECURSIVE RStrip(_)
RStrip(str) ==
    IF str # <<>> /\ str[Len(str)] = " "
    THEN RStrip(SubSeq(str, 1, Len(str) - 1)) ELSE str

Strip(str) == RStrip(LStrip(str))

\* headers.get(name)
HeaderGet(headers, name) ==
    IF name \in DOMAIN headers THEN headers[name] ELSE <<>>

\* _get_forwarded_for: the first entry of X-Forwarded-For, or None.  A
\* request attribute is None when the request has no such attribute.
extractors__get_forwarded_for(request) ==
    LET forwarded ==
            IF request.headers = None THEN <<>>
            ELSE IF HeaderGet(request.headers[1], "X-Forwarded-For") # <<>>
                 THEN HeaderGet(request.headers[1], "X-Forwarded-For")
                 ELSE HeaderGet(request.headers[1], "x-forwarded-for")
    IN  IF forwarded # <<>> THEN Some(Strip(SplitFirst(forwarded))) ELSE None

\* The direct client IP of the request: request.client.host, else
\* request.remote_addr, else request.socket.remoteAddress; the empty string
\* stands for None as well.
extractors_client_ip(request) ==
    IF request.client_host # None THEN request.client_host[1]
    ELSE IF request.remote_addr # None THEN request.remote_addr[1]
    ELSE IF request.socket_remoteAddress # None
         THEN request.socket_remoteAddress[1]
    ELSE <<>>

\* extract_ip: the key, or None.  trusted_proxies is None or a list.
extract_ip(request, trusted_proxies) ==
    LET client_ip == extractors_client_ip(request)
        forwarded_for == extractors__get_forwarded_for(request)
    IN  IF client_ip = <<>> THEN None
        ELSE IF /\ trusted_proxies # None
                /\ trusted_proxies[1] # <<>>
                /\ extractors__is_trusted_proxy(client_ip, trusted_proxies[1])
                /\ forwarded_for # None
                /\ forwarded_for[1] # <<>>
             THEN forwarded_for
             ELSE Some(client_ip)

\* The peers: no value, the addresses 0, 1 and the highest, and a string
\* that is no address.
PeerStrings ==
    {<<>>, <<DigitChar(0)>>, <<DigitChar(1)>>, <<DigitChar(LastAddr)>>, <<"x">>}

\* The header values: the strings of up to MaxHeaderLen characters over a
\* comma, a blank and an address.
HeaderStrings ==
    UNION {[1..n -> {",", " ", DigitChar(1)}] : n \in 0..MaxHeaderLen}

\* The headers of a request: none, X-Forwarded-For under one of its two
\* spellings, or an empty one beside the other spelling.
HeaderDicts ==
    {<<>>}
    \cup {[k \in {"X-Forwarded-For"} |-> h] : h \in HeaderStrings}
    \cup {[k \in {"x-forwarded-for"} |-> h] : h \in HeaderStrings}
    \cup {[k \in {"X-Forwarded-For", "x-forwarded-for"} |->
             IF k = "x-forwarded-for" THEN h ELSE <<>>] : h \in HeaderStrings}

Requests ==
    [client_host : {None} \cup {Some(peer) : peer \in PeerStrings},
     remote_addr : {None, Some(<<DigitChar(1)>>)},
     socket_remoteAddress : {None, Some(<<DigitChar(1)>>)},
     headers : {None} \cup {Some(h) : h \in HeaderDicts}]

\* The entries of trusted_proxies: single addresses, networks (the last
\* with host bits set) and a string that is neither.
ProxyEntries ==
    {<<DigitChar(0)>>, <<DigitChar(LastAddr)>>,
     <<DigitChar(0), "/", DigitChar(0)>>,
     <<DigitChar(0), "/", DigitChar(1)>>,
     <<DigitChar(2 ^ (AddrBits - 1)), "/", DigitChar(1)>>,
     <<DigitChar(1), "/", DigitChar(AddrBits)>>,
     <<DigitChar(1), "/", DigitChar(1)>>,
     <<"x">>}

TrustedProxies ==
    {None} \cup
    {Some(l) : l \in UNION {[1..n -> ProxyEntries] : n \in 0..MaxProxies}}

\* A call of extract_ip as its caller saw it.
ExtractIp ==
    /\ calls = 0
    /\ calls' = 1
    /\ \E request \in Requests :
         cur' = [called |-> TRUE, request |-> request,
                 client_ip |-> extractors_client_ip(request),
                 result |-> extract_ip(request, cfg.trusted_proxies)]
    /\ UNCHANGED <<cfg, now, state, prev, allowedAt, storeVars>>

InitExtract ==
    /\ cfg \in [trusted_proxies : TrustedProxies]
    /\ now = 0
    /\ state = <<>>
    /\ cur = NoCall
    /\ prev = NoCall
    /\ allowedAt = <<>>
    /\ calls = 0
    /\ store = EmptyStore
    /\ pc = <<>>
    /\ local = <<>>
    /\ ledger = 0

NextExtract == ExtractIp

SpecExtract == InitExtract /\ [][NextExtract]_vars

\* The peer, an address, is the address of a single-IP entry of the list or
\* lies in the range of a CIDR entry.
PeerMatches(peer, proxies) ==
    \E a \in 0..LastAddr :
        /\ peer = <<DigitChar(a)>>
        /\ \E i \in DOMAIN proxies :
              \/ proxies[i] = <<DigitChar(a)>>
              \/ \E b \in 0..LastAddr, n \in 0..AddrBits :
                    /\ proxies[i] = <<DigitChar(b), "/", DigitChar(n)>>
                    /\ a \div 2 ^ (AddrBits - n) = b \div 2 ^ (AddrBits - n)

\* entry is the first entry of the comma-separated header value, without
\* the blanks around it.
IsFirstEntry(entry, header) ==
    \E i \in 0..Len(header), j \in 0..Len(header) :
        /\ i < j
        /\ entry = SubSeq(header, i + 1, j)
        /\ entry[1] # " " /\ entry[Len(entry)] # " "
        /\ \A k \in 1..j : header[k] # ","
        /\ \A k \in 1..i : header[k] = " "
        /\ \E m \in j..Len(header) :
              /\ \A k \in j + 1..m : header[k] = " "
              /\ m = Len(header) \/ header[m + 1] = ","

\* The values the request carries for X-Forwarded-For, in either spelling.
ForwardedHeaders(request) ==
    IF request.headers = None THEN {}
    ELSE {request.headers[1][k] : k \in DOMAIN request.headers[1]}

\* C29: forwarded-for is honoured only behind a trusted proxy -- extract_ip
\* returns anything but the direct peer address only when the peer matches
\* an entry (single IP or CIDR) of trusted_proxies, and what it returns
\* then is the first, whitespace-trimmed entry of X-Forwarded-For; for a
\* peer that matches no entry, or with no trusted proxies configured, the
\* key is the direct peer address whatever the headers are, so any two
\* such requests with the same peer get the same key.
C29_ForwardedOnlyIfTrusted ==
    cur.called =>
        LET proxies == IF cfg.trusted_proxies = None THEN <<>>
                       ELSE cfg.trusted_proxies[1]
            peer == cur.client_ip
            key == IF peer = <<>> THEN None ELSE Some(peer)
        IN  /\ cur.result # key =>
                  /\ PeerMatches(peer, proxies)
                  /\ cur.result # None
                  /\ \E header \in ForwardedHeaders(cur.request) :
                        IsFirstEntry(cur.result[1], header)
            /\ ~PeerMatches(peer, proxies) => cur.result = key

\* C29 witness: trusted proxies are configured, the peer is an address that
\* matches none of them, the request carries a forwarded-for entry that is
\* another address, in blanks, and the key is the peer.
C29_Witness ==
    /\ cur.called
    /\ cfg.trusted_proxies # None /\ cfg.trusted_proxies[1] # <<>>
    /\ \E i \in DOMAIN cfg.trusted_proxies[1] :
          ip_address(cfg.trusted_proxies[1][i]) # None
    /\ cur.client_ip = <<DigitChar(LastAddr)>>
    /\ ~PeerMatches(cur.client_ip, cfg.trusted_proxies[1])
    /\ cur.request.headers # None
    /\ \E header \in ForwardedHeaders(cur.request) :
          /\ IsFirstEntry(<<DigitChar(1)>>, header)
          /\ header[1] = " "
    /\ cur.result = Some(cur.client_ip)

\* C30: token bucket deny step -- when the refilled amount tokens' =
\* min(capacity, tokens + (now - last_refill) * rate) is below cost,
\* check_and_consume denies, returns last_refill unchanged and reports
\* retry_after = ceil((cost - tokens') / rate) + 1.
C30_TokenBucketDenyStep ==
    [][ (cfg.algorithm = "token_bucket" /\ calls' = calls + 1) =>
          LET capacity == cfg.burst * Unit(cfg)
              refilled == Min(capacity,
                              state.tokens
                                  + (now' - state.last_refill) * cfg.limit)
              deficit == cur'.cost * Unit(cfg) - refilled
          IN  refilled < cur'.cost * Unit(cfg) =>
                  /\ ~cur'.decision.allowed
                  /\ state'.last_refill = state.last_refill
                  /\ cur'.decision.retry_after =
                        Some(CeilDiv(deficit, TicksPerSec * cfg.limit) + 1)
      ]_vars

\* C31: token bucket allow step -- when the refilled amount tokens' is at
\* least cost, check_and_consume allows, returns the state
\* (tokens' - cost, now), remaining = floor(tokens' - cost) and
\* reset_at = ceil(now + (capacity - (tokens' - cost)) / rate).
C31_TokenBucketAllowStep ==
    [][ (cfg.algorithm = "token_bucket" /\ calls' = calls + 1) =>
          LET capacity == cfg.burst * Unit(cfg)
              refilled == Min(capacity,
                              state.tokens
                                  + (now' - state.last_refill) * cfg.limit)
              left == refilled - cur'.cost * Unit(cfg)
          IN  refilled >= cur'.cost * Unit(cfg) =>
                  /\ cur'.decision.allowed
                  /\ state' = [tokens |-> left, last_refill |-> now']
                  /\ cur'.decision.remaining = left \div Unit(cfg)
                  /\ cur'.decision.reset_at =
                        CeilDiv(now' * cfg.limit + (capacity - left),
                                TicksPerSec * cfg.limit)
      ]_vars

\* C32: leaky bucket transition -- with level' = max(0, level - (now -
\* last_leak) * leak_rate), check_and_consume allows iff level' + cost <=
\* capacity, then returning (level' + cost, now), remaining =
\* floor(capacity - (level' + cost)) and reset_at = ceil(now + (level' +
\* cost) / leak_rate); otherwise it denies, returning (level', now) and
\* retry_after = ceil((level' + cost - capacity) / leak_rate) + 1.
C32_LeakyBucketTransition ==
    [][ (cfg.algorithm = "leaky_bucket" /\ calls' = calls + 1) =>
          LET capacity == cfg.burst * Unit(cfg)
              drained == Max(0, state.level
                                    - (now' - state.last_leak) * cfg.limit)
              level == drained + cur'.cost * Unit(cfg)
          IN  IF level <= capacity
              THEN /\ cur'.decision.allowed
                   /\ state' = [level |-> level, last_leak |-> now']
                   /\ cur'.decision.remaining = (capacity - level) \div Unit(cfg)
                   /\ cur'.decision.reset_at =
                         CeilDiv(now' * cfg.limit + level,
                                 TicksPerSec * cfg.limit)
              ELSE /\ ~cur'.decision.allowed
                   /\ state' = [level |-> drained, last_leak |-> now']
                   /\ cur'.decision.retry_after =
                         Some(CeilDiv(level - capacity,
                                      TicksPerSec * cfg.limit) + 1)
      ]_vars

\* C33 as stated: fixed window transition -- check_and_consume rolls the
\* window exactly when now - window_start >= window (count := 0,
\* window_start := now), reports reset_at = floor(window_start + window),
\* allows iff count + cost <= limit, storing count + cost with remaining =
\* limit - count - cost, and on deny leaves count unchanged with
\* retry_after = reset_at - now + 1.
C33_FixedWindowTransition ==
    [][ (cfg.algorithm = "fixed_window" /\ calls' = calls + 1) =>
          LET rolled == now' - state.window_start >= cfg.window * TicksPerSec
              count == IF rolled THEN 0 ELSE state.count
              window_start == IF rolled THEN now' ELSE state.window_start
              reset_at == (window_start + cfg.window * TicksPerSec)
                              \div TicksPerSec
          IN  /\ state'.window_start = window_start
              /\ cur'.decision.reset_at = reset_at
              /\ cur'.decision.allowed <=> count + cur'.cost <= cfg.limit
              /\ cur'.decision.allowed =>
                    /\ state'.count = count + cur'.cost
                    /\ cur'.decision.remaining = cfg.limit - count - cur'.cost
              /\ ~cur'.decision.allowed =>
                    /\ state'.count = count
                    /\ cur'.decision.retry_after # None
                    /\ cur'.decision.retry_after[1] * TicksPerSec =
                          reset_at * TicksPerSec - now' + TicksPerSec
      ]_vars

\* C33 as amended: the same transition, with the denial's retry_after the
\* whole number int(reset_at - now) + 1 (reset_at - now truncated toward
\* zero), which is reset_at - now + 1 when now is a whole second.
C33_FixedWindowTransitionWholeSeconds ==
    [][ (cfg.algorithm = "fixed_window" /\ calls' = calls + 1) =>
          LET rolled == now' - state.window_start >= cfg.window * TicksPerSec
              count == IF rolled THEN 0 ELSE state.count
              window_start == IF rolled THEN now' ELSE state.window_start
              reset_at == (window_start + cfg.window * TicksPerSec)
                              \div TicksPerSec
              wait == reset_at * TicksPerSec - now'
          IN  /\ state'.window_start = window_start
              /\ cur'.decision.reset_at = reset_at
              /\ cur'.decision.allowed <=> count + cur'.cost <= cfg.limit
              /\ cur'.decision.allowed =>
                    /\ state'.count = count + cur'.cost
                    /\ cur'.decision.remaining = cfg.limit - count - cur'.cost
              /\ ~cur'.decision.allowed =>
                    /\ state'.count = count
                    /\ cur'.decision.retry_after =
                          Some((IF wait >= 0 THEN wait \div TicksPerSec
                                ELSE -((-wait) \div TicksPerSec)) + 1)
                    /\ now' % TicksPerSec = 0 =>
                          cur'.decision.retry_after[1] * TicksPerSec =
                              wait + TicksPerSec
      ]_vars

\* A denial at a time that is not a whole second, in a window that was
\* opened by a roll, after an allowed call in that window.
C33_Witness ==
    /\ cfg.algorithm = "fixed_window"
    /\ cur.called /\ ~cur.decision.allowed
    /\ cur.now % TicksPerSec # 0
    /\ state.window_start > 0
    /\ prev.called /\ prev.decision.allowed
    /\ prev.now >= state.window_start
    /\ cur.cost <= cfg.limit

\* C34: sliding window discard rule -- at time now with current =
\* floor(now / bucket_size), check_and_consume discards exactly the
\* sub-buckets whose index is less than current - precision; every sub-bucket
\* with index >= current - precision is retained and its count is part of the
\* total compared with the limit.
C34_SlidingWindowDiscardRule ==
    [][ (cfg.algorithm = "sliding_window" /\ calls' = calls + 1) =>
          LET current == (now' * cfg.precision) \div (cfg.window * TicksPerSec)
              kept == { b \in DOMAIN state : b >= current - cfg.precision }
              total == SumValues([b \in kept |-> state[b]])
          IN  /\ DOMAIN state' \ {current} = kept \ {current}
              /\ \A b \in kept \ {current} : state'[b] = state[b]
              /\ cur'.decision.allowed <=> total + cur'.cost <= cfg.limit
      ]_vars

\* ------------------------------------------ sliding window, admissions kept
\* The sliding window driven as in SpecSlidingWindow, with every allowed
\* request kept in ledger as its time and its cost.
SlidingWindowCheckLogged ==
    /\ cfg.algorithm = "sliding_window"
    /\ calls < MaxCalls
    /\ \E cost \in Costs, dt \in Steps :
         LET t == now + dt
             r == SlidingWindow_check_and_consume(cfg, state, cost, t)
         IN  /\ state' = r.buckets
             /\ Record(cost, t, r.decision,
                       \E b \in DOMAIN state : b \notin DOMAIN r.buckets)
             /\ ledger' = IF r.decision.allowed
                          THEN Append(ledger, [at |-> t, cost |-> cost])
                          ELSE ledger
    /\ UNCHANGED <<cfg, store, pc, local>>

InitSlidingWindowLogged ==
    /\ cfg \in Policies({"sliding_window"})
    /\ now = 0
    /\ state = SlidingWindow_initial_state
    /\ cur = NoCall
    /\ prev = NoCall
    /\ allowedAt = <<>>
    /\ calls = 0
    /\ store = EmptyStore
    /\ pc = <<>>
    /\ local = <<>>
    /\ ledger = <<>>

NextSlidingWindowLogged == SlidingWindowCheckLogged
SpecSlidingWindowLogged ==
    InitSlidingWindowLogged /\ [][NextSlidingWindowLogged]_vars

\* The cost admitted at the times s with t < s + window, the request at
\* position upto of the ledger and those before it.
RECURSIVE CostWithinWindow(_, _, _)
CostWithinWindow(admitted, upto, t) ==
    IF upto = 0 THEN 0
    ELSE (IF t < admitted[upto].at + cfg.window * TicksPerSec
          THEN admitted[upto].cost ELSE 0)
         + CostWithinWindow(admitted, upto - 1, t)

\* C35: sliding window retention over time -- the cost recorded by an allowed
\* request at time s stays counted against the limit for every later check at
\* a time now < s + window: a request is allowed only if its cost and the cost
\* admitted less than one window before it fit in the limit together.
C35_SlidingWindowRetention ==
    [][ (cfg.algorithm = "sliding_window" /\ calls' = calls + 1) =>
          LET counted == CostWithinWindow(ledger, Len(ledger), now')
          IN  cur'.decision.allowed => counted + cur'.cost <= cfg.limit
      ]_vars

\* C36: linear decay since the last violation -- if the last
\* record_violation happened at time t0 and left the score s0, then after any
\* sequence of get_penalty, get_rate_limit_multiplier and apply_penalty calls
\* with no new violation, get_penalty at time t returns abuse_score =
\* max(0, s0 - decay_rate * (t - t0) / 3600).  Stated for t0 a whole second,
\* where last_violation = int(t0) is t0 itself.
C36_LinearDecaySinceViolation ==
    ( /\ cur.called /\ cur.op = "get_penalty"
      /\ state.left # None
      /\ state.violated_at[1] % TicksPerSec = 0 )
    => cur.penalty[1].abuse_score =
           Max(0, state.left[1]
                    - (cur.now - state.violated_at[1]) * cfg.decay_rate)

\* C37: denied token-bucket requests have no effect on later outcomes -- for
\* any reachable state and any times t1 <= t2, the decision and the resulting
\* state of a request at t2 are the same whether or not a denied request was
\* processed, and its returned state persisted, at t1.
C37_DenialsHaveNoEffect ==
    [][ ( /\ cfg.algorithm = "token_bucket"
          /\ calls' = calls + 1
          /\ ~cur'.decision.allowed ) =>
          \A cost \in Costs, dt \in 0..MaxStep :
              TokenBucket_check_and_consume(cfg, state'.tokens,
                                            state'.last_refill, cost, now' + dt)
              = TokenBucket_check_and_consume(cfg, state.tokens,
                                              state.last_refill, cost, now' + dt)
      ]_vars

\* ------------------- check_quota then consume_quota, several callers, one key
\* Each caller runs check_quota and, only if it returned allowed,
\* consume_quota, both with the default cost of 1.  A caller's store.get and
\* store.set are atomic (the store's lock); nothing else is.
DefaultCost == 1

\* check_quota: its store.get and the comparison on the caller's own copy.
CheckQuotaCall(c) ==
    /\ pc[c] = "idle"
    /\ calls < MaxCalls
    /\ LET r == QuotaManager_check_quota(store, Identifier, cfg.quota,
                                         DefaultCost, now, cfg.utcoffset)
       IN  /\ store' = r.store
           /\ pc' = [pc EXCEPT ![c] = IF r.allowed THEN "checked" ELSE "idle"]
    /\ calls' = calls + 1
    /\ UNCHANGED <<cfg, now, algVars, local, ledger>>

\* consume_quota after the check allowed: its get_quota.
ConsumeCheckedGet(c) ==
    /\ pc[c] = "checked"
    /\ LET key == QuotaManager__get_quota_key(Identifier, cfg.quota.name)
           got == InMemoryStore_get(store, key, now)
           current_quota == QuotaManager_get_quota(got.value, cfg.quota, now,
                                                   cfg.utcoffset)
       IN  /\ store' = got.store
           /\ local' = [local EXCEPT ![c] =
                          [cost |-> DefaultCost, current_quota |-> current_quota]]
    /\ pc' = [pc EXCEPT ![c] = "consume_quota"]
    /\ UNCHANGED <<cfg, now, algVars, calls, ledger>>

NextQuotaCheckedConcurrent ==
    \/ \E c \in Callers : CheckQuotaCall(c)
    \/ \E c \in Callers : ConsumeCheckedGet(c)
    \/ \E c \in Callers : ConsumeQuotaSet(c)
    \/ QuotaTick

SpecQuotaCheckedConcurrent ==
    InitQuotaConcurrent /\ [][NextQuotaCheckedConcurrent]_vars

\* C38: quota check-then-consume under concurrency -- when several callers
\* each run check_quota and, only if it returned allowed, consume_quota (unit
\* cost) for the same identifier and quota, the number of operations allowed
\* and consumed within one period never exceeds the quota limit.
C38_ConcurrentQuotaBound ==
    now \div TicksPerSec < FirstBoundary(cfg.quota.period)
        => ledger <= cfg.quota.limit

\* ------------- QuotaManager, one caller passing quota objects of other limits
\* The caller passes a Quota of the configured name and period whose limit is
\* any of QuotaLimits.  state is the limit of the quota object that was
\* passed to the consume_quota that created the record now stored.
QuotaLimits == {1, MaxLimit}

QuotaAs(limit) == [cfg.quota EXCEPT !.limit = limit]

\* The record another operation would find at time t, if any.
StoredQuota(s, t) ==
    InMemoryStore_get(s, QuotaManager__get_quota_key(Identifier, cfg.quota.name),
                      t).value

QuotaCallAs(limit, call) ==
    [called |-> TRUE, op |-> call.op, cost |-> call.cost, now |-> call.now,
     before |-> call.before, seen |-> call.seen, allowed |-> call.allowed,
     quota |-> call.quota, passed |-> limit]

GetQuotaAs ==
    /\ calls < MaxAccesses
    /\ \E limit \in QuotaLimits :
         LET r == QuotaManager_read(store, Identifier, QuotaAs(limit), now,
                                    cfg.utcoffset)
         IN  /\ store' = r.store
             /\ QuotaRecord(QuotaCallAs(limit,
                    QuotaCall("get_quota", 0, now, store, r.quota, TRUE,
                              r.quota)))
    /\ UNCHANGED ledger

CheckQuotaAs ==
    /\ calls < MaxAccesses
    /\ \E limit \in QuotaLimits, cost \in Costs :
         LET r == QuotaManager_check_quota(store, Identifier, QuotaAs(limit),
                                           cost, now, cfg.utcoffset)
         IN  /\ store' = r.store
             /\ QuotaRecord(QuotaCallAs(limit,
                    QuotaCall("check_quota", cost, now, store, r.quota,
                              r.allowed, r.quota)))
    /\ UNCHANGED ledger

\* QuotaRecord leaves state alone: the action is stated in full.
ConsumeQuotaAs ==
    /\ calls < MaxAccesses
    /\ \E limit \in QuotaLimits, cost \in Costs :
         LET r == QuotaManager_read(store, Identifier, QuotaAs(limit), now,
                                    cfg.utcoffset)
             updated == [r.quota EXCEPT !.current_usage = @ + cost]
         IN  /\ store' = QuotaManager_consume_quota(r.store, Identifier,
                                                    r.quota, cost, now)
             /\ cur' = QuotaCallAs(limit,
                    QuotaCall("consume_quota", cost, now, store, r.quota,
                              TRUE, updated))
             /\ state' = IF StoredQuota(store, now) = None
                         THEN Some(limit) ELSE state
             /\ ledger' = ledger + cost
    /\ calls' = calls + 1
    /\ UNCHANGED <<cfg, now, prev, allowedAt, pc, local>>

\* The configured limit is never used: every call passes QuotaAs(limit).
InitQuotaLimits ==
    /\ cfg \in [quota : {q \in QuotaConfigs : q.limit = 1}, utcoffset : {0}]
    /\ now = QuotaStart
    /\ state = None
    /\ cur = NoCall
    /\ prev = NoCall
    /\ allowedAt = <<>>
    /\ calls = 0
    /\ store = EmptyStore
    /\ pc = <<>>
    /\ local = <<>>
    /\ ledger = 0

NextQuotaLimits ==
    \/ GetQuotaAs
    \/ CheckQuotaAs
    \/ ConsumeQuotaAs
    \/ ResetQuota
    \/ QuotaAdvance

SpecQuotaLimits == InitQuotaLimits /\ [][NextQuotaLimits]_vars

\* C39: stored quota limit stays in force -- once consume_quota has persisted
\* a record for an (identifier, quota name) pair, every later get_quota,
\* check_quota and consume_quota for that pair decides against the limit
\* stored in the record, not the limit of the quota object passed by the
\* caller, across period resets too, until the record is deleted by
\* reset_quota or evicted by TTL.  The stored limit is the limit that was
\* passed when the record was created.
C39_StoredLimitInForce ==
    /\ StoredQuota(store, now) # None =>
          StoredQuota(store, now)[1].limit = state[1]
    /\ ( /\ cur.called
         /\ cur.op \in {"get_quota", "check_quota", "consume_quota"}
         /\ StoredQuota(cur.before, cur.now) # None )
       => LET limit == StoredQuota(cur.before, cur.now)[1].limit
          IN  /\ cur.quota.limit = limit
              /\ cur.op = "check_quota" =>
                    (cur.allowed <=> cur.seen + cur.cost <= limit)

\* A check_quota that passes another limit than the stored one, after the
\* stored record's period has ended, and whose outcome the two limits decide
\* differently.
C39_Witness ==
    /\ cur.called /\ cur.op = "check_quota"
    /\ StoredQuota(cur.before, cur.now) # None
    /\ LET stored == StoredQuota(cur.before, cur.now)[1]
       IN  /\ stored.limit # cur.passed
           /\ cur.now \div TicksPerSec >= stored.reset_at
           /\ (cur.seen + cur.cost <= stored.limit)
                 # (cur.seen + cur.cost <= cur.passed)

\* ------------------------------------------------------------ Flask adapter
\* Decision.to_headers: RateLimit-Limit, RateLimit-Remaining, RateLimit-Reset
\* and, for a denial that has one, Retry-After.
Decision_to_headers(d) ==
    [limit |-> d.limit, remaining |-> Max(0, d.remaining),
     reset |-> d.reset_at,
     retry_after |-> IF ~d.allowed /\ d.retry_after # None
                     THEN d.retry_after ELSE None]

\* limiter.check(request) as a whole, for the one key of the model: steps 3
\* to 5 and the Decision it returns.
Limiter_check(s, p, t) ==
    LET r == Limiter_load(s, p, PolicyCost, t)
    IN  [store |-> Limiter_persist(r.store, p, r.state, t),
         decision |-> r.decision]

Response(status, headers) == [status |-> status, headers |-> headers]

\* before_request hook: the 429 response it returns for a denial, None for
\* an allowed request.
HaltFlask_check_rate_limit(s, p, t) ==
    LET r == Limiter_check(s, p, t)
    IN  [store |-> r.store,
         decision |-> r.decision,
         response |-> IF ~r.decision.allowed
                      THEN Some(Response(429, Decision_to_headers(r.decision)))
                      ELSE None]

\* after_request hook: add headers if not already added.
HaltFlask_add_rate_limit_headers(s, p, t, response) ==
    IF response.status # 429
    THEN LET r == Limiter_check(s, p, t)
         IN  [store |-> r.store,
              checked |-> Some(r.decision),
              response |-> Response(response.status,
                                    Decision_to_headers(r.decision))]
    ELSE [store |-> s, checked |-> None, response |-> response]

\* What a view function returns: a status, and no rate limit headers.
ViewStatuses == {200, 404}

\* One request at a time: pc is where its handling stands, local what the
\* hooks have done so far, cur the last finished request.
FlaskBeforeRequest ==
    /\ pc = "idle"
    /\ calls < MaxCalls
    /\ \E r \in {HaltFlask_check_rate_limit(store, cfg, now)} :
           /\ store' = r.store
           /\ local' = [admitted |-> r.decision, checks |-> <<r.decision>>,
                        response |-> r.response]
           /\ pc' = IF r.response = None THEN "view" ELSE "after_request"
    /\ UNCHANGED <<cfg, now, algVars, calls, ledger>>

FlaskView ==
    /\ pc = "view"
    /\ \E status \in ViewStatuses :
         local' = [local EXCEPT !.response = Some(Response(status, None))]
    /\ pc' = "after_request"
    /\ UNCHANGED <<cfg, now, algVars, calls, store, ledger>>

FlaskAfterRequest ==
    /\ pc = "after_request"
    /\ \E r \in {HaltFlask_add_rate_limit_headers(store, cfg, now,
                                                    local.response[1])} :
           /\ store' = r.store
           /\ cur' = [called |-> TRUE, now |-> now,
                      admitted |-> local.admitted,
                      checks |-> local.checks \o r.checked,
                      response |-> r.response]
    /\ pc' = "idle"
    /\ local' = <<>>
    /\ calls' = calls + 1
    /\ UNCHANGED <<cfg, now, state, prev, allowedAt, ledger>>

FlaskTick == Tick(MaxStep)

InitFlask ==
    /\ cfg \in Policies({"token_bucket", "leaky_bucket"})
    /\ now = 0
    /\ state = <<>>
    /\ cur = NoCall
    /\ prev = NoCall
    /\ allowedAt = <<>>
    /\ calls = 0
    /\ store = EmptyStore
    /\ pc = "idle"
    /\ local = <<>>
    /\ ledger = 0

NextFlask ==
    \/ FlaskBeforeRequest
    \/ FlaskView
    \/ FlaskAfterRequest
    \/ FlaskTick

SpecFlask == InitFlask /\ [][NextFlask]_vars

\* The number of allowed decisions among the checks of a request.
RECURSIVE AllowedAmong(_)
AllowedAmong(checks) ==
    IF checks = <<>> THEN 0
    ELSE (IF Head(checks).allowed THEN 1 ELSE 0) + AllowedAmong(Tail(checks))

\* C40: one check per request -- for every request handled by an application
\* initialised with HaltFlask.init_app, limiter.check is invoked exactly
\* once, so an allowed request consumes its cost once and the headers on its
\* response come from the decision that admitted it.
C40_OneCheckPerRequest ==
    cur.called =>
        /\ Len(cur.checks) = 1
        /\ cur.admitted.allowed =>
              /\ AllowedAmong(cur.checks) = 1
              /\ cur.response.headers = Decision_to_headers(cur.admitted)

====
